---- MODULE Spec2Model ----
(***************************************************************************)
(* Model of the block-versioned entity store of                            *)
(* store/postgres/src/deployment_store.rs (DeploymentStore).               *)
(*                                                                         *)
(* The relational state of one deployment is the record `db`.  Every       *)
(* public method of DeploymentStore that mutates it is one action.  A      *)
(* `conn.transaction(|| ...)` is modelled by conn_transaction: the closure *)
(* is evaluated step by step on a working copy and the copy replaces `db`  *)
(* only when the closure returns Ok.                                       *)
(*                                                                         *)
(* The helpers of the crates `deployment`, `dynds`, `relational` and       *)
(* `copy` are not part of the sources at hand; they are modelled from      *)
(* their call sites and from the specification of the storage engine.      *)
(***************************************************************************)
EXTENDS Integers, Sequences, FiniteSets, TLC

\* ------------------------------------------------------------------ bounds
MaxBlock == 3       \* block numbers range over 0 .. MaxBlock
MaxMods == 1        \* length of a modification batch
MaxCount == 2       \* cap of the persisted entity count
MaxRows == 1        \* cap of the recorded dynamic data sources and error records
MaxEffects == 1     \* side effects (new data source, removed data source, error) per block
MaxPools == 1       \* number of read-only pools
MaxWeight == 2      \* weight of a pool
CounterBits == 4    \* width kept of the round-robin counter, which wraps at 2^CounterBits
SubgraphCacheCapacity == 2  \* entries the metadata cache holds (100 in the store)

\* --------------------------------------------------------------- data model
Blocks == 0 .. MaxBlock
Hashes == {"h1"}

\* BlockPtr { number, hash }; NoPtr stands for Option::None
BlockPtrs == [number : Blocks, hash : Hashes]
NoPtr == [number |-> 0 - 1, hash |-> "-"]

\* Option<BlockNumber>::None of SubgraphInfo::graft_block
NoGraft == 0 - 1

\* the block of the graft point of a deployment created with a graft base
GraftBlocks == {1}

\* the upper bound of an open block range
INF == MaxBlock + 2

\* FirehoseCursor
Cursors == {"None", "c1"}

EntityTypes == {"Dog", "Cat", "Owner"}
EntityIds == {"1"}
EntityKeys == [entity_type : EntityTypes, entity_id : EntityIds]
Datas == {"d1"}

\* the API schema: Dog and Cat implement the interface Pet, Owner implements none
interfaces_for_type == [t \in EntityTypes |-> IF t \in {"Dog", "Cat"} THEN {"Pet"} ELSE {}]
types_for_interface == [i \in {"Pet"} |-> {"Dog", "Cat"}]

\* EntityModification
Insert(k, d) == [kind |-> "Insert", key |-> k, data |-> d]
Overwrite(k, d) == [kind |-> "Overwrite", key |-> k, data |-> d]
Remove(k) == [kind |-> "Remove", key |-> k, data |-> "-"]
EntityModifications ==
    {Insert(k, d) : k \in EntityKeys, d \in Datas}
        \cup {Overwrite(k, d) : k \in EntityKeys, d \in Datas}
        \cup {Remove(k) : k \in EntityKeys}

\* the batches a block's processing hands over: at most one modification per
\* key, grouped by entity type
TypeRank == [t \in EntityTypes |-> CASE t = "Dog" -> 1 [] t = "Cat" -> 2 [] OTHER -> 3]
Batches ==
    {ms \in UNION {[1 .. n -> EntityModifications] : n \in 0 .. MaxMods} :
        \A i, j \in 1 .. Len(ms) :
            i < j => TypeRank[ms[i].key.entity_type] < TypeRank[ms[j].key.entity_type]}

\* a versioned entity row: valid over the half-open block range [start, end)
Version(k, s, e, d) == [key |-> k, start |-> s, end |-> e, data |-> d]

Key(t) == [entity_type |-> t, entity_id |-> "1"]

\* the digest-carrier entities (POI_OBJECT): one per causality region, the
\* entity id names the region and the data is the `digest` attribute
CausalityRegions == {"r1", "r2"}
PoiKey(region) == [entity_type |-> "Poi$", entity_id |-> region]
PoiKeys == {PoiKey(region) : region \in CausalityRegions}
AllKeys == EntityKeys \cup PoiKeys

\* the source deployments a graft can copy from: their entity versions (all
\* temporally well formed), dynamic data sources and error records
SourceLayouts ==
    { [versions |-> {Version(Key("Cat"), 0, INF, "s1")},
       data_sources |-> {},
       errors |-> {}],
      [versions |-> {Version(Key("Cat"), 0, 2, "s1"), Version(Key("Cat"), 2, INF, "s2")},
       data_sources |-> {[name |-> "ds1", block |-> 1], [name |-> "ds1", block |-> 2]},
       errors |-> {}],
      [versions |-> {Version(Key("Dog"), 1, 3, "s1"), Version(Key("Owner"), 2, INF, "s2")},
       data_sources |-> {},
       errors |-> {[id |-> "e1", block |-> 0]}],
      [versions |-> {Version(PoiKey("r1"), 0, 1, "p0"), Version(PoiKey("r1"), 1, INF, "p1"),
                     Version(PoiKey("r2"), 0, INF, "p2")},
       data_sources |-> {},
       errors |-> {}] }

VARIABLES
    db,             \* the relational state of the deployment
    graft_base,     \* the graft base and graft point the deployment was created with
    graft_block,    \* SubgraphInfo::graft_block, fixed when the deployment is created
    last,           \* the last call: operation, arguments and outcome
    router,         \* read_only_pools, replica_order and conn_round_robin_counter
    calls,          \* the replica_for_query call each caller has in flight
    selected,       \* the weights the store was built with and the latest selections
    status,         \* health of the deployment and its fatal error
    caches,         \* subgraph_cache and layout_cache of the store
    threads,        \* the cache lookup each thread has in progress
    catalog,        \* which deployments have a migration pending
    schemas,        \* the deployment metadata and namespace create_deployment wrote
    nebula,         \* the requests sent to the mirror store on the current session
    writers         \* the call each concurrent writer has in progress

vars == <<db, graft_base, graft_block, last, router, calls, selected, status, caches, threads, catalog, schemas, nebula, writers>>

\* no deployment has been created in the primary store
NoSchemas == [exists |-> FALSE, metadata |-> "-", tables |-> {}, data_sources_table |-> FALSE]

\* no request has been sent to the mirror store
NoSession == [requests |-> <<>>]

\* the concurrent callers of the write path
Writers == {"w1", "w2"}

\* a writer with no call in progress
IdleWriter == [pc |-> "idle"]

\* ------------------------------------------------- storage engine (Layout)

\* Layout::find: the version of `key` valid at `block`
find(versions, key, block) ==
    {v \in versions : v.key = key /\ v.start <= block /\ block < v.end}

\* the keys that have an open (current) version
live(versions) == {v.key : v \in {w \in versions : w.end = INF}}

\* the layout's count query: the number of current entity versions
count_query(versions) == Cardinality({v \in versions : v.end = INF})

\* Layout::conflicting_entity: a current entity with this id in one of `types`
conflicting_entity(versions, entity_id, types) ==
    {v.key.entity_type : v \in {w \in versions :
        w.end = INF /\ w.key.entity_id = entity_id /\ w.key.entity_type \in types}}

\* Layout::revert_block(block): removes every version that starts at `block`
\* or later and reopens the versions that were closed at `block` or later
revert_versions(versions, block) ==
    {IF v.end < INF /\ v.end >= block THEN [v EXCEPT !.end = INF] ELSE v :
        v \in {w \in versions : w.start < block}}

\* the pair (event, count) of Layout::revert_block; count is the net change
\* of the number of current versions
revert_block(versions, block) ==
    [versions |-> revert_versions(versions, block),
     count |-> count_query(revert_versions(versions, block)) - count_query(versions)]

\* ------------------------------------------------ results of a call
\* Ok carries the returned value as Some(ev) = <<ev>>; Err carries none
Ok(d, ev) == [res |-> "ok", db |-> d, event |-> <<ev>>]
Err(kind, d) == [res |-> kind, db |-> d, event |-> <<>>]

\* a transaction that keeps the writes of a failed closure
conn_transaction_no_rollback(before, r) == r

\* conn.transaction(|| closure): the closure's writes are committed when it
\* returns Ok and rolled back when it returns Err; `r` is the closure's result
\* on a working copy of `before`
conn_transaction(before, r) ==
    IF r.res = "ok" THEN r ELSE [r EXCEPT !.db = before]

\* -------------------------------------------- metadata helpers (deployment)
DataSourceNames == {"ds1"}
ErrorIds == {"e1"}

\* dynds::insert: the new dynamic data sources, tagged with the block
dynds_insert(rows, data_sources, block_ptr_to) ==
    rows \cup {[name |-> n, block |-> block_ptr_to.number] : n \in data_sources}

\* dynds::remove_offchain
dynds_remove_offchain(rows, offchain_to_remove) == rows \ offchain_to_remove

\* deployment::insert_subgraph_errors
insert_subgraph_errors(rows, deterministic_errors, block) ==
    rows \cup {[id |-> e, block |-> block] : e \in deterministic_errors}

\* Layout::revert_metadata: removes the dynamic data sources and the error
\* records that were created at `block` or later
revert_metadata(d, block) ==
    [d EXCEPT !.data_sources = {r \in @ : r.block < block},
              !.errors = {r \in @ : r.block < block}]

\* a transact_block that does not look at the direction of the move
transact_block_any_direction(d, ptr, firehose_cursor, count) ==
    Ok([d EXCEPT !.latest_block = ptr,
                 !.firehose_cursor = firehose_cursor,
                 !.entity_count = @ + count], "unit")

\* deployment::transact_block: moves the head forward to `ptr`, stores the
\* cursor and adds `count` to the entity count; a head that is not below
\* `ptr` is left alone and reported
transact_block(d, ptr, firehose_cursor, count) ==
    IF d.latest_block = NoPtr \/ d.latest_block.number < ptr.number
    THEN Ok([d EXCEPT !.latest_block = ptr,
                      !.firehose_cursor = firehose_cursor,
                      !.entity_count = @ + count], "unit")
    ELSE Err("DuplicateBlockProcessing", d)

\* deployment::forward_block_ptr: the same forward move without cursor and count
forward_block_ptr(d, ptr) ==
    IF d.latest_block = NoPtr \/ d.latest_block.number < ptr.number
    THEN Ok([d EXCEPT !.latest_block = ptr], "unit")
    ELSE Err("DuplicateBlockProcessing", d)

\* deployment::revert_block_ptr: sets the head to `ptr` and stores the cursor
revert_block_ptr(d, ptr, firehose_cursor) ==
    [d EXCEPT !.latest_block = ptr, !.firehose_cursor = firehose_cursor]

\* deployment::update_entity_count: adds the net change `count` that
\* revert_block reported to the persisted entity count
update_entity_count(d, count) == [d EXCEPT !.entity_count = @ + count]

\* deployment::set_entity_count: a full recount with the layout's count query
set_entity_count(d) == [d EXCEPT !.entity_count = count_query(d.versions)]

\* deployment::initialize_block_ptr: sets the head of a deployment that has
\* none to its start block
StartBlock == [number |-> 0, hash |-> "h1"]
initialize_block_ptr(d) ==
    IF d.latest_block = NoPtr THEN [d EXCEPT !.latest_block = StartBlock] ELSE d

\* ------------------------------------------------------- DeploymentStore

\* check_interface_entity_uniqueness: the types that share an interface with
\* the key's type must hold no current entity with the key's id
check_interface_entity_uniqueness(versions, key) ==
    LET types_with_shared_interface ==
            UNION {types_for_interface[i] : i \in interfaces_for_type[key.entity_type]}
                \ {key.entity_type}
    IN  IF types_with_shared_interface # {}
            /\ conflicting_entity(versions, key.entity_id, types_with_shared_interface) # {}
        THEN "ConflictingId"
        ELSE "ok"

\* EntityWithSpaceName::new
EntityWithSpaceName(space_name, entity, block_number) ==
    [space_name |-> space_name, entity |-> entity, block_number |-> block_number]

\* an apply_entity_modifications that writes every pushed entity as a new
\* open version and leaves the version it supersedes open
apply_entity_modifications_overlap(versions, mods, ptr) ==
    LET pushed == SelectSeq(mods, LAMBDA m : m.kind \in {"Insert", "Overwrite"})
        entities == [i \in 1 .. Len(pushed) |->
                        EntityWithSpaceName(pushed[i].key.entity_type, pushed[i].data, ptr.number)]
    IN  [versions |-> versions \cup
                        {Version(pushed[i].key, ptr.number, INF, pushed[i].data) :
                            i \in 1 .. Len(pushed)},
         entities |-> entities, count |-> Len(entities)]

\* apply_entity_modifications: every Insert and Overwrite is pushed to
\* `entities`, a Remove is skipped; nothing is written to the layout and the
\* returned count is the length of `entities`
apply_entity_modifications(versions, mods, ptr) ==
    LET pushed == SelectSeq(mods, LAMBDA m : m.kind \in {"Insert", "Overwrite"})
        entities == [i \in 1 .. Len(pushed) |->
                        EntityWithSpaceName(pushed[i].key.entity_type, pushed[i].data, ptr.number)]
    IN  [versions |-> versions, entities |-> entities, count |-> Len(entities)]

\* the steps of transact_block_operations at which the storage engine can fail
TransactFailPoints ==
    {"none", "lock", "dynds_insert", "remove_offchain", "insert_errors", "transact_block",
     "nebula", "nebula_insert"}

\* the closure that transact_block_operations runs inside conn.transaction,
\* on the working copy `d`; `fail` is the step at which the engine fails
transact_closure(d, block_ptr_to, firehose_cursor, mods, data_sources, deterministic_errors, offchain_to_remove, fail) ==
    LET event == mods
        a == apply_entity_modifications(d.versions, mods, block_ptr_to)
        d1 == [d EXCEPT !.versions = a.versions]
        d2 == [d1 EXCEPT !.data_sources = dynds_insert(@, data_sources, block_ptr_to)]
        d3 == [d2 EXCEPT !.data_sources = dynds_remove_offchain(@, offchain_to_remove)]
        d4 == IF deterministic_errors # {}
              THEN [d3 EXCEPT !.errors =
                        insert_subgraph_errors(@, deterministic_errors, block_ptr_to.number)]
              ELSE d3
        t == transact_block(d4, block_ptr_to, firehose_cursor, a.count)
    IN  IF fail = "lock" THEN Err("StoreError", d)
        ELSE IF fail = "dynds_insert" THEN Err("StoreError", d1)
        ELSE IF fail = "remove_offchain" THEN Err("StoreError", d2)
        ELSE IF fail = "insert_errors" /\ deterministic_errors # {} THEN Err("StoreError", d3)
        ELSE IF fail = "transact_block" THEN Err("StoreError", d4)
        ELSE IF t.res # "ok" THEN Err(t.res, d4)
        ELSE Ok(t.db, event)

\* transact_block_operations: the transaction, then the writes to the
\* secondary (nebula) store: a failure to connect or to authenticate is
\* unwrapped (a panic), the results of the inserts are dropped
transact_block_operations(d, block_ptr_to, firehose_cursor, mods, data_sources, deterministic_errors, offchain_to_remove, fail) ==
    LET r == conn_transaction(d, transact_closure(d, block_ptr_to, firehose_cursor, mods,
                 data_sources, deterministic_errors, offchain_to_remove, fail))
    IN  IF r.res # "ok" THEN r
        ELSE IF fail = "nebula" THEN Err("panic", r.db)
        ELSE r

\* the steps of rewind_with_conn at which the storage engine can fail
RewindFailPoints ==
    {"none", "lock", "revert_block_ptr", "revert_block", "revert_metadata",
     "update_entity_count"}

\* a rewind closure that reverts from the block after the first block to remove
rewind_closure_boundary_late(d, graft, block_ptr_to, firehose_cursor, fail) ==
    LET block == block_ptr_to.number + 2
        d1 == revert_block_ptr(d, block_ptr_to, firehose_cursor)
        rb == revert_block(d1.versions, block)
        d2 == [d1 EXCEPT !.versions = rb.versions]
        d3 == revert_metadata(d2, block)
        d4 == update_entity_count(d3, rb.count)
    IN  IF fail = "lock" THEN Err("StoreError", d)
        ELSE IF graft # NoGraft /\ graft > block_ptr_to.number THEN Err("RevertPastGraft", d)
        ELSE IF fail = "revert_block_ptr" THEN Err("StoreError", d)
        ELSE IF fail = "revert_block" THEN Err("StoreError", d1)
        ELSE IF fail = "revert_metadata" THEN Err("StoreError", d2)
        ELSE IF fail = "update_entity_count" THEN Err("StoreError", d3)
        ELSE Ok(d4, "reverted")

\* a rewind closure that also rejects the graft block itself
rewind_closure_graft_inclusive(d, graft, block_ptr_to, firehose_cursor, fail) ==
    LET block == block_ptr_to.number + 1
        d1 == revert_block_ptr(d, block_ptr_to, firehose_cursor)
        rb == revert_block(d1.versions, block)
        d2 == [d1 EXCEPT !.versions = rb.versions]
        d3 == revert_metadata(d2, block)
        d4 == update_entity_count(d3, rb.count)
    IN  IF fail = "lock" THEN Err("StoreError", d)
        ELSE IF graft # NoGraft /\ graft >= block_ptr_to.number THEN Err("RevertPastGraft", d)
        ELSE IF fail = "revert_block_ptr" THEN Err("StoreError", d)
        ELSE IF fail = "revert_block" THEN Err("StoreError", d1)
        ELSE IF fail = "revert_metadata" THEN Err("StoreError", d2)
        ELSE IF fail = "update_entity_count" THEN Err("StoreError", d3)
        ELSE Ok(d4, "reverted")

\* the closure that rewind_with_conn runs inside conn.transaction
rewind_closure(d, graft, block_ptr_to, firehose_cursor, fail) ==
    LET block == block_ptr_to.number + 1
        d1 == revert_block_ptr(d, block_ptr_to, firehose_cursor)
        rb == revert_block(d1.versions, block)
        d2 == [d1 EXCEPT !.versions = rb.versions]
        d3 == revert_metadata(d2, block)
        d4 == update_entity_count(d3, rb.count)
    IN  IF fail = "lock" THEN Err("StoreError", d)
        ELSE IF graft # NoGraft /\ graft > block_ptr_to.number THEN Err("RevertPastGraft", d)
        ELSE IF fail = "revert_block_ptr" THEN Err("StoreError", d)
        ELSE IF fail = "revert_block" THEN Err("StoreError", d1)
        ELSE IF fail = "revert_metadata" THEN Err("StoreError", d2)
        ELSE IF fail = "update_entity_count" THEN Err("StoreError", d3)
        ELSE Ok(d4, "reverted")

\* rewind_with_conn
rewind_with_conn(d, graft, block_ptr_to, firehose_cursor, fail) ==
    conn_transaction(d, rewind_closure(d, graft, block_ptr_to, firehose_cursor, fail))

\* rewind: the head is unwrapped; the sanity check on the block numbers
\* builds a constraint violation and drops it, so the call goes on to
\* rewind_with_conn with the cursor reset
rewind(d, graft, block_ptr_to, fail) ==
    IF d.latest_block = NoPtr THEN Err("panic", d)
    ELSE rewind_with_conn(d, graft, block_ptr_to, "None", fail)

\* a revert_block_operations that lets a revert to the head's own number pass
revert_block_operations_sideways(d, graft, block_ptr_to, firehose_cursor, fail) ==
    IF d.latest_block = NoPtr THEN Err("panic", d)
    ELSE IF block_ptr_to.number > d.latest_block.number THEN Err("panic", d)
    ELSE conn_transaction(d, rewind_closure(d, graft, block_ptr_to, firehose_cursor, fail))

\* revert_block_operations: the head is unwrapped; reverting forward panics
revert_block_operations(d, graft, block_ptr_to, firehose_cursor, fail) ==
    IF d.latest_block = NoPtr THEN Err("panic", d)
    ELSE IF block_ptr_to.number >= d.latest_block.number THEN Err("panic", d)
    ELSE rewind_with_conn(d, graft, block_ptr_to, firehose_cursor, fail)

\* the steps of the graft transaction of start_subgraph at which the engine can fail
GraftFailPoints ==
    {"none", "find_layout", "copy_dynds", "copy_errors", "revert_block", "set_entity_count",
     "forward_block_ptr", "initialize_block_ptr"}

\* copy::Connection::copy_data: copies the source's entity versions into the
\* destination; `copied` is what a run has copied when it returns
copy_data(d, copied) == [d EXCEPT !.versions = @ \cup copied]

\* dynds::shared::copy: the source's dynamic data sources up to the graft block
dynds_copy(d, src, block) ==
    [d EXCEPT !.data_sources = @ \cup {r \in src.data_sources : r.block <= block}]

\* deployment::copy_errors: the source's error records up to the graft block
copy_errors(d, src, block) ==
    [d EXCEPT !.errors = @ \cup {r \in src.errors : r.block <= block.number}]

\* the closure of the graft transaction of start_subgraph
graft_closure(d, src, block, fail) ==
    LET d1 == dynds_copy(d, src, block.number)
        d2 == copy_errors(d1, src, block)
        block_to_revert == block.number + 1
        d3 == [d2 EXCEPT !.versions = revert_block(@, block_to_revert).versions]
        d4 == set_entity_count(d3)
        f == forward_block_ptr(d4, block)
    IN  IF fail = "copy_dynds" THEN Err("StoreError", d)
        ELSE IF fail = "copy_errors" THEN Err("StoreError", d1)
        ELSE IF fail = "revert_block" THEN Err("StoreError", d2)
        ELSE IF fail = "set_entity_count" THEN Err("StoreError", d3)
        ELSE IF fail = "forward_block_ptr" THEN Err("StoreError", d4)
        ELSE f

\* a start_subgraph that does not look at the status of copy_data
start_subgraph_ignores_cancel(d, graft_src, copied, fail) ==
    IF fail = "find_layout" THEN Err("StoreError", d)
    ELSE IF graft_src.some
    THEN LET c == copy_data(d, copied)
             g == conn_transaction(c, graft_closure(c, graft_src.src, graft_src.block, fail))
         IN  IF g.res # "ok" THEN g
             ELSE IF fail = "initialize_block_ptr" THEN Err("StoreError", g.db)
             ELSE Ok(initialize_block_ptr(g.db), "unit")
    ELSE IF fail = "initialize_block_ptr" THEN Err("StoreError", d)
    ELSE Ok(initialize_block_ptr(d), "unit")

\* a start_subgraph whose post-copy phases are not rolled back together
start_subgraph_unatomic(d, graft_src, copied, fail) ==
    IF fail = "find_layout" THEN Err("StoreError", d)
    ELSE IF graft_src.some
    THEN LET c == copy_data(d, copied)
             g == graft_closure(c, graft_src.src, graft_src.block, fail)
         IN  IF copied # graft_src.src.versions THEN Err("Canceled", c)
             ELSE IF g.res # "ok" THEN g
             ELSE IF fail = "initialize_block_ptr" THEN Err("StoreError", g.db)
             ELSE Ok(initialize_block_ptr(g.db), "unit")
    ELSE IF fail = "initialize_block_ptr" THEN Err("StoreError", d)
    ELSE Ok(initialize_block_ptr(d), "unit")

\* start_subgraph: with a graft source, copy_data, then the graft
\* transaction; in every case the block pointer is initialized at the end
start_subgraph(d, graft_src, copied, fail) ==
    IF fail = "find_layout" THEN Err("StoreError", d)
    ELSE IF graft_src.some
    THEN LET c == copy_data(d, copied)
             g == conn_transaction(c, graft_closure(c, graft_src.src, graft_src.block, fail))
         IN  IF copied # graft_src.src.versions THEN Err("Canceled", c)
             ELSE IF g.res # "ok" THEN g
             ELSE IF fail = "initialize_block_ptr" THEN Err("StoreError", g.db)
             ELSE Ok(initialize_block_ptr(g.db), "unit")
    ELSE IF fail = "initialize_block_ptr" THEN Err("StoreError", d)
    ELSE Ok(initialize_block_ptr(d), "unit")

\* --------------------------------------------------------- replica router

\* ReplicaId
Main == [kind |-> "Main", index |-> 0]
ReadOnly(i) == [kind |-> "ReadOnly", index |-> i]

\* the weight vectors and pool counts a store is built with
PoolCounts == 0 .. MaxPools
PoolWeights == UNION {[1 .. n -> 0 .. MaxWeight] : n \in 0 .. MaxPools + 2}

\* a resize that pads a short vector but does not truncate a long one
resize_padding_only(v, new_len, value) ==
    [i \in 1 .. (IF Len(v) > new_len THEN Len(v) ELSE new_len) |->
        IF i <= Len(v) THEN v[i] ELSE value]

\* Vec::resize(new_len, value)
resize(v, new_len, value) == [i \in 1 .. new_len |-> IF i <= Len(v) THEN v[i] ELSE value]

\* the list of replicas with repetitions according to the weights
RECURSIVE replica_list(_, _)
replica_list(pool_weights, i) ==
    IF i > Len(pool_weights) THEN <<>>
    ELSE [k \in 1 .. pool_weights[i] |-> IF i = 1 THEN Main ELSE ReadOnly(i - 2)]
            \o replica_list(pool_weights, i + 1)

Occurrences(seq, x) == Cardinality({i \in 1 .. Len(seq) : seq[i] = x})

\* the outcomes of replica_order.shuffle(&mut rng)
Shuffles(seq) ==
    {o \in [1 .. Len(seq) -> {seq[i] : i \in 1 .. Len(seq)}] :
        \A i \in 1 .. Len(seq) : Occurrences(o, seq[i]) = Occurrences(seq, seq[i])}

\* DeploymentStore::new: `shuffled` is the replica list after the shuffle
new(read_only_pools, pool_weights, shuffled) ==
    [read_only_pools |-> read_only_pools, replica_order |-> shuffled,
     conn_round_robin_counter |-> 0]

\* AtomicUsize::fetch_add(1): the previous value, and the wrapped new one
fetch_add(counter) == [prev |-> counter, next |-> (counter + 1) % (2 ^ CounterBits)]

\* a replica_for_query that advances the counter for subscriptions as well
replica_for_query_counts_subscriptions(store, for_subscription) ==
    LET weights_count == Len(store.replica_order)
        f == fetch_add(store.conn_round_robin_counter)
        advanced == [store EXCEPT !.conn_round_robin_counter = f.next]
    IN  IF for_subscription THEN [res |-> "ok", replica |-> Main, store |-> advanced]
        ELSE IF weights_count = 0 THEN [res |-> "panic", replica |-> Main, store |-> advanced]
        ELSE [res |-> "ok", replica |-> store.replica_order[(f.prev % weights_count) + 1],
              store |-> advanced]

\* a replica_for_query that picks subscriptions from replica_order as well
replica_for_query_weighted_subscriptions(store, for_subscription) ==
    LET weights_count == Len(store.replica_order)
        f == fetch_add(store.conn_round_robin_counter)
        advanced == [store EXCEPT !.conn_round_robin_counter = f.next]
    IN  IF weights_count = 0 THEN [res |-> "panic", replica |-> Main, store |-> advanced]
        ELSE [res |-> "ok", replica |-> store.replica_order[(f.prev % weights_count) + 1],
              store |-> advanced]

\* replica_for_query(for_subscription); a remainder by zero panics
replica_for_query(store, for_subscription) ==
    LET weights_count == Len(store.replica_order)
        f == fetch_add(store.conn_round_robin_counter)
        advanced == [store EXCEPT !.conn_round_robin_counter = f.next]
    IN  IF for_subscription THEN [res |-> "ok", replica |-> Main, store |-> store]
        ELSE IF weights_count = 0 THEN [res |-> "panic", replica |-> Main, store |-> advanced]
        ELSE [res |-> "ok", replica |-> store.replica_order[(f.prev % weights_count) + 1],
              store |-> advanced]

\* the concurrent callers of replica_for_query
Callers == {"q1", "q2"}
Idle == [res |-> "idle", replica |-> Main, for_subscription |-> FALSE]

\* ------------------------------------------------------- failure recovery

\* Option<Vec<u8>>::None of ErrorDetail::block_hash
NoHash == "-"
ErrorHashes == {"h1", "h2", NoHash}
FatalIds == {"f1"}

\* the SubgraphError handed to fail_subgraph, which ErrorDetail::fatal later
\* returns: id, deterministic, block_hash and the start of block_range
NoError == [some |-> FALSE, id |-> "-", deterministic |-> FALSE, block_hash |-> NoHash, block |-> 0]
SubgraphErrors ==
    {[some |-> TRUE, id |-> i, deterministic |-> det, block_hash |-> h, block |-> b] :
        i \in FatalIds, det \in BOOLEAN, h \in ErrorHashes, b \in Blocks}

\* the current and parent pointers the unfail functions are called with
UnfailPtrs == [number : Blocks, hash : {"h1", "h2"}]

\* health and fatal_error of a deployment that never failed
HealthyStatus == [health |-> "Healthy", fatal_error |-> NoError]

\* deployment::fail: records the error and marks the deployment failed
deployment_fail(d, st, error) ==
    [res |-> "ok",
     db |-> IF error.deterministic
            THEN [d EXCEPT !.errors = @ \cup {[id |-> error.id, block |-> error.block]}]
            ELSE d,
     status |-> [health |-> "Failed", fatal_error |-> error]]

\* ErrorDetail::fatal
ErrorDetail_fatal(st) == st.fatal_error

\* deployment::has_deterministic_errors
has_deterministic_errors(d, block) == \E r \in d.errors : r.block <= block

\* deployment::update_deployment_status
update_deployment_status(st, health, fatal_error) ==
    [health |-> health, fatal_error |-> fatal_error]

\* deployment::delete_error
delete_error(d, id) == [d EXCEPT !.errors = {r \in @ : r.id # id}]

\* the steps of the unfail functions at which the engine can fail
UnfailFailPoints ==
    {"none", "get_conn", "fatal", "has_deterministic_errors", "revert_block",
     "update_deployment_status", "delete_error"}

Outcome(res, d, st) == [res |-> res, db |-> d, status |-> st]

\* unfail_deterministic_error with one step changed: "hash_unchecked" does
\* not compare the error's block hash with current_ptr, "fatal_kept" leaves
\* the fatal error recorded
unfail_deterministic_error_with_slip(d, st, graft, current_ptr, parent_ptr, fail, slip) ==
    LET subgraph_error == ErrorDetail_fatal(st)
        prev_health ==
            IF has_deterministic_errors(d, parent_ptr.number) THEN "Unhealthy" ELSE "Healthy"
        rv == revert_block_operations(d, graft, parent_ptr, "None",
                                      IF fail = "revert_block" THEN fail ELSE "none")
    IN  IF fail = "get_conn" \/ fail = "fatal" THEN Outcome("StoreError", d, st)
        ELSE IF ~subgraph_error.some THEN Outcome("Noop", d, st)
        ELSE IF ~subgraph_error.deterministic THEN Outcome("Noop", d, st)
        ELSE IF fail = "has_deterministic_errors" THEN Outcome("StoreError", d, st)
        ELSE IF subgraph_error.block_hash = NoHash THEN Outcome("Noop", d, st)
        ELSE IF slip # "hash_unchecked" /\ subgraph_error.block_hash # current_ptr.hash
            THEN Outcome("Noop", d, st)
        ELSE IF rv.res # "ok" THEN Outcome(rv.res, rv.db, st)
        ELSE IF fail = "update_deployment_status" THEN Outcome("StoreError", rv.db, st)
        ELSE Outcome("Unfailed", rv.db,
                     update_deployment_status(st, prev_health,
                         IF slip = "fatal_kept" THEN st.fatal_error ELSE NoError))

unfail_deterministic_error_hash_unchecked(d, st, graft, current_ptr, parent_ptr, fail) ==
    unfail_deterministic_error_with_slip(d, st, graft, current_ptr, parent_ptr, fail, "hash_unchecked")

unfail_deterministic_error_fatal_kept(d, st, graft, current_ptr, parent_ptr, fail) ==
    unfail_deterministic_error_with_slip(d, st, graft, current_ptr, parent_ptr, fail, "fatal_kept")

\* unfail_deterministic_error(site, current_ptr, parent_ptr): the closure
\* of conn.transaction reads the fatal error and the errors of the parent
\* block, calls revert_block_operations, which takes a connection of its own
\* and commits its own transaction, and then updates the status
unfail_deterministic_error(d, st, graft, current_ptr, parent_ptr, fail) ==
    LET subgraph_error == ErrorDetail_fatal(st)
        prev_health ==
            IF has_deterministic_errors(d, parent_ptr.number) THEN "Unhealthy" ELSE "Healthy"
        rv == revert_block_operations(d, graft, parent_ptr, "None",
                                      IF fail = "revert_block" THEN fail ELSE "none")
    IN  IF fail = "get_conn" \/ fail = "fatal" THEN Outcome("StoreError", d, st)
        ELSE IF ~subgraph_error.some THEN Outcome("Noop", d, st)
        ELSE IF ~subgraph_error.deterministic THEN Outcome("Noop", d, st)
        ELSE IF fail = "has_deterministic_errors" THEN Outcome("StoreError", d, st)
        ELSE IF subgraph_error.block_hash = NoHash THEN Outcome("Noop", d, st)
        ELSE IF subgraph_error.block_hash # current_ptr.hash THEN Outcome("Noop", d, st)
        ELSE IF rv.res # "ok" THEN Outcome(rv.res, rv.db, st)
        ELSE IF fail = "update_deployment_status" THEN Outcome("StoreError", rv.db, st)
        ELSE Outcome("Unfailed", rv.db, update_deployment_status(st, prev_health, NoError))

\* an unfail_non_deterministic_error that waits for the head to pass the error's block
unfail_non_deterministic_error_strict(d, st, current_ptr, fail) ==
    LET subgraph_error == ErrorDetail_fatal(st)
    IN  IF fail = "get_conn" \/ fail = "fatal" THEN Outcome("StoreError", d, st)
        ELSE IF ~subgraph_error.some THEN Outcome("Noop", d, st)
        ELSE IF subgraph_error.deterministic THEN Outcome("Noop", d, st)
        ELSE IF current_ptr.number > subgraph_error.block
            THEN IF fail = "update_deployment_status" \/ fail = "delete_error"
                 THEN Outcome("StoreError", d, st)
                 ELSE Outcome("Unfailed", delete_error(d, subgraph_error.id),
                              update_deployment_status(st, "Healthy", NoError))
        ELSE Outcome("Noop", d, st)

\* unfail_non_deterministic_error(site, current_ptr): one transaction on one
\* connection, rolled back when a step fails
unfail_non_deterministic_error(d, st, current_ptr, fail) ==
    LET subgraph_error == ErrorDetail_fatal(st)
    IN  IF fail = "get_conn" \/ fail = "fatal" THEN Outcome("StoreError", d, st)
        ELSE IF ~subgraph_error.some THEN Outcome("Noop", d, st)
        ELSE IF subgraph_error.deterministic THEN Outcome("Noop", d, st)
        ELSE IF current_ptr.number >= subgraph_error.block
            THEN IF fail = "update_deployment_status" \/ fail = "delete_error"
                 THEN Outcome("StoreError", d, st)
                 ELSE Outcome("Unfailed", delete_error(d, subgraph_error.id),
                              update_deployment_status(st, "Healthy", NoError))
        ELSE Outcome("Noop", d, st)

\* ------------------------------------------------------------------ caches

\* the deployments of the store and the threads that ask for their metadata
Deployments == {"d1", "d2", "d3"}
Threads == {"t1", "t2"}

\* deployment::manifest_info: the spec version of the manifest, as the
\* patch number of 0.0.x; a deployment's manifest never changes
manifest_info(site) == IF site = "d1" THEN 5 ELSE IF site = "d2" THEN 6 ELSE 7

\* deployment::graft_point: the block the deployment was grafted at
graft_point(site) == IF site = "d2" THEN 1 ELSE NoGraft

\* SubgraphInfo; NoInfo stands for Option::None
NoInfo == [input |-> "-", graft_block |-> NoGraft, poi_version |-> "-"]

\* the SubgraphInfo that subgraph_info_with_conn builds from storage
\* (SPEC_VERSION_0_0_6 is patch number 6)
derive_info(site) ==
    [input |-> site, graft_block |-> graft_point(site),
     poi_version |-> IF manifest_info(site) >= 6 THEN "Fast" ELSE "Legacy"]

\* LruCache: a list of entries, the least recently used first
lru_index(cache, key) == {i \in 1 .. Len(cache) : cache[i].key = key}
lru_without(cache, key) == SelectSeq(cache, LAMBDA e : e.key # key)

\* LruCache::get moves the entry it finds to the most recently used end
lru_get(cache, key) ==
    IF lru_index(cache, key) = {} THEN [found |-> FALSE, value |-> NoInfo, cache |-> cache]
    ELSE LET e == cache[CHOOSE i \in lru_index(cache, key) : TRUE]
         IN  [found |-> TRUE, value |-> e.value,
              cache |-> Append(lru_without(cache, key), e)]

\* LruCache::insert adds or replaces the entry as the most recently used
\* one and drops the least recently used entries beyond the capacity
lru_insert(cache, key, value, capacity) ==
    LET added == Append(lru_without(cache, key), [key |-> key, value |-> value])
    IN  IF Len(added) > capacity THEN SubSeq(added, Len(added) - capacity + 1, Len(added))
        ELSE added

\* a lookup that returns the most recently used entry, whatever its key
cached_info_any_key(cache, site) ==
    IF cache = <<>> THEN [found |-> FALSE, value |-> NoInfo, cache |-> cache]
    ELSE [found |-> TRUE, value |-> cache[Len(cache)].value, cache |-> cache]

\* self.subgraph_cache.lock().unwrap().get(&site.deployment): the lock is
\* held for this lookup only
cached_info(cache, site) == lru_get(cache, site)

\* an insertion that adds the entry without replacing the one of the same key
insert_info_appending(cache, site, info) ==
    LET added == Append(cache, [key |-> site, value |-> info])
        c == IF Len(added) > SubgraphCacheCapacity THEN Tail(added) ELSE added
    IN  [res |-> "ok", value |-> info, cache |-> c]

\* cache.insert(site.deployment.clone(), info) and the read of the entry
\* that follows it, both under one lock
insert_info(cache, site, info) ==
    LET c == lru_insert(cache, site, info, SubgraphCacheCapacity)
        g == lru_get(c, site)
    IN  IF g.found THEN [res |-> "ok", value |-> g.value, cache |-> g.cache]
        ELSE [res |-> "panic", value |-> NoInfo, cache |-> c]

\* Layout; NoLayout stands for Option::None
NoLayout == [site |-> "-", is_migrating |-> FALSE]

\* Layout loaded from storage: it tells whether a migration is pending
load_layout(cat, site) == [site |-> site, is_migrating |-> cat.migrating[site]]

\* a LayoutCache::get that caches what it loads even while a migration is pending
layout_cache_get_caching_pending(cache, cat, site, fail) ==
    IF ~cat.migrating[site] /\ cache[site] # NoLayout
    THEN [res |-> "ok", layout |-> cache[site], served |-> "cache", cache |-> cache]
    ELSE IF fail THEN [res |-> "StoreError", layout |-> NoLayout, served |-> "-", cache |-> cache]
    ELSE [res |-> "ok", layout |-> load_layout(cat, site), served |-> "storage",
          cache |-> [cache EXCEPT ![site] = load_layout(cat, site)]]

\* LayoutCache::get: the cached entry unless a migration is pending; a layout
\* loaded while a migration is pending is not cached
layout_cache_get(cache, cat, site, fail) ==
    IF ~cat.migrating[site] /\ cache[site] # NoLayout
    THEN [res |-> "ok", layout |-> cache[site], served |-> "cache", cache |-> cache]
    ELSE IF fail THEN [res |-> "StoreError", layout |-> NoLayout, served |-> "-", cache |-> cache]
    ELSE [res |-> "ok", layout |-> load_layout(cat, site), served |-> "storage",
          cache |-> IF cat.migrating[site] THEN cache
                    ELSE [cache EXCEPT ![site] = load_layout(cat, site)]]

\* LayoutCache::find
layout_cache_find(cache, site) == cache[site]

\* layout(conn, site)
layout(cache, cat, site, fail) == layout_cache_get(cache, cat, site, fail)

\* a thread outside the store, and a thread at `pc` inside a call
IdleThread ==
    [pc |-> "idle", op |-> "-", site |-> "-", res |-> "-", info |-> NoInfo,
     layout |-> NoLayout, served |-> "-", pending |-> FALSE]
At(pc, op, site) == [IdleThread EXCEPT !.pc = pc, !.op = op, !.site = site]
Returning(th, res, info, lay, served, pending) ==
    [th EXCEPT !.pc = "return", !.res = res, !.info = info, !.layout = lay,
               !.served = served, !.pending = pending]

\* the caches of a store that was just built
EmptyCaches == [subgraph_cache |-> <<>>, layout_cache |-> [s \in Deployments |-> NoLayout]]

\* ------------------------------------------------------- create_deployment

\* the object types a subgraph schema can declare
SchemaTypes == {"Account", "TokenTransfer"}

\* the proof-of-indexing table every layout has
PoiTable == "Poi$"

\* the deployment metadata (DeploymentCreate) a call can pass
Manifests == {"m1", "m2"}

\* the graft_base passed to create_deployment: none, or a layout the new
\* layout can or cannot copy from
GraftBaseLayouts == {"none", "compatible", "incompatible"}

\* the orders in which `layout.tables` can be iterated
TableOrders ==
    {<<"Account", "Poi$", "TokenTransfer">>, <<"TokenTransfer", "Account", "Poi$">>,
     <<"Poi$", "TokenTransfer", "Account">>}

\* the steps of create_deployment at which the stores can fail
CreateFailPoints ==
    {"none", "get_conn", "new_from_conf", "authenticate", "exists", "create_deployment",
     "create_schema", "create_relational_schema", "data_sources", "execute"}

\* Layout::create_relational_schema: one table per object type and the Poi$ table
create_relational_schema(schema) == schema \cup {PoiTable}

\* layout.can_copy_from(base): the list of incompatibilities
can_copy_from(base) == IF base = "incompatible" THEN <<"incompatible">> ELSE <<>>

\* the closure create_deployment runs inside conn.transaction on the working
\* copy `s`; Ok carries the tables pushed to `tables`, which happens as the
\* last step of creating the schema
create_closure(s, schema, deployment, base, replace, private_data_sources, fail) ==
    LET exists == s.exists
        s1 == IF replace \/ ~exists
              THEN [s EXCEPT !.exists = TRUE, !.metadata = deployment]
              ELSE s
        s2 == [s1 EXCEPT !.tables = create_relational_schema(schema)]
        s3 == [s2 EXCEPT !.data_sources_table = private_data_sources]
    IN  IF fail = "exists" THEN Err("StoreError", s)
        ELSE IF (replace \/ ~exists) /\ fail = "create_deployment" THEN Err("StoreError", s)
        ELSE IF exists THEN Ok(s1, {})
        ELSE IF fail = "create_schema" THEN Err("StoreError", s1)
        ELSE IF fail = "create_relational_schema" THEN Err("StoreError", s1)
        ELSE IF base # "none" /\ can_copy_from(base) # <<>> THEN Err("Unknown", s2)
        ELSE IF private_data_sources /\ fail = "data_sources" THEN Err("StoreError", s2)
        ELSE Ok(s3, s3.tables)

\* the requests sent to the mirror store
Authenticate == [req |-> "authenticate", table |-> "-"]
Execute(table) == [req |-> "execute", table |-> table]
Signout == [req |-> "signout", table |-> "-"]

\* the loop over `tables`: the Poi$ table is skipped; for every other table
\* the create statements are executed and the session is signed out
RECURSIVE create_tables(_)
create_tables(tables) ==
    IF tables = <<>> THEN <<>>
    ELSE IF Head(tables) = PoiTable THEN create_tables(Tail(tables))
    ELSE <<Execute(Head(tables)), Signout>> \o create_tables(Tail(tables))

\* the result of a create_deployment call: what it returns, what the
\* transaction returned, the primary store and the mirror requests
Created(res, transaction, s, requests) ==
    [res |-> res, transaction |-> transaction, db |-> s, requests |-> requests]

\* create_deployment: the connection, the mirror session (unwrapped), the
\* transaction whose result is bound to `res`, the loop over `tables`, and
\* the final `let res = Ok(()); res`
create_deployment(s, schema, deployment, base, replace, private_data_sources, order, fail) ==
    LET r == conn_transaction(s, create_closure(s, schema, deployment, base, replace,
                 private_data_sources, fail))
        pushed == IF r.res = "ok" THEN r.event[1] ELSE {}
        tables == SelectSeq(order, LAMBDA t : t \in pushed)
        first == SelectSeq(tables, LAMBDA t : t # PoiTable)
    IN  IF fail = "get_conn" THEN Created("StoreError", "-", s, <<>>)
        ELSE IF fail = "new_from_conf" THEN Created("panic", "-", s, <<>>)
        ELSE IF fail = "authenticate" THEN Created("panic", "-", s, <<Authenticate>>)
        ELSE IF fail = "execute" /\ first # <<>>
        THEN Created("panic", r.res, r.db, <<Authenticate, Execute(first[1])>>)
        ELSE Created("ok", r.res, r.db, <<Authenticate>> \o create_tables(tables))

\* ------------------------------------------------------------------ prune

\* the reorg thresholds a caller passes
ReorgThresholds == {0, 2}

\* where a prune call stops early: a failing `?`, or a check_cancel that
\* observes the cancellation
PruneStops ==
    {"none", "layout", "cancel_after_layout", "state", "graft_point", "cancel_before_floor",
     "set_earliest_block", "cancel_after_floor", "prune_by_copying", "cancel_in_copy"}

\* deployment::set_earliest_block
set_earliest_block(d, earliest_block) ==
    Ok([d EXCEPT !.earliest_block_number = earliest_block], "unit")

\* the versions Layout::prune_by_copying keeps: those still valid at
\* `earliest_block` or later
prune_versions(versions, earliest_block) == {v \in versions : v.end > earliest_block}

\* Layout::prune_by_copying: rewrites the tables without the versions that
\* ended at or before `earliest_block`; a cancellation it observes or an
\* error leaves the tables as they were
prune_by_copying(d, earliest_block, final_block, stop) ==
    IF stop = "prune_by_copying" THEN Err("StoreError", d)
    ELSE IF stop = "cancel_in_copy" THEN Err("Canceled", d)
    ELSE Ok([d EXCEPT !.versions = prune_versions(@, earliest_block)], "reporter")

\* prune with one slip, named by `slip`:
\*   "floor_first"      the floor is written before the call is validated
\*   "floor_unchecked"  the floor is not compared with the persisted one
\*   "window_empty"     final_block may equal earliest_block
\*   "graft_exclusive"  earliest_block may equal the graft block
\*   "cancel_late"      the checkpoint after the floor is looked at after copying
prune_with_slip(d, graft, earliest_block, reorg_threshold, stop, slip) ==
    LET final_block == d.latest_block.number - reorg_threshold
        w == [d EXCEPT !.earliest_block_number = earliest_block]
        e == IF slip = "floor_first" THEN w ELSE d
        f == conn_transaction(d,
                IF stop = "set_earliest_block" THEN Err("StoreError", d)
                ELSE set_earliest_block(d, earliest_block))
    IN  IF stop = "layout" THEN Err("StoreError", d)
        ELSE IF stop = "cancel_after_layout" THEN Err("Canceled", d)
        ELSE IF stop = "state" \/ d.latest_block = NoPtr THEN Err("StoreError", d)
        ELSE IF d.latest_block.number <= reorg_threshold THEN Ok(d, "reporter")
        ELSE IF slip # "floor_unchecked" /\ d.earliest_block_number > earliest_block
            THEN Err("ConstraintViolation", e)
        ELSE IF (IF slip = "window_empty" THEN final_block < earliest_block
                 ELSE final_block <= earliest_block)
            THEN Err("ConstraintViolation", e)
        ELSE IF stop = "graft_point" THEN Err("StoreError", e)
        ELSE IF graft # NoGraft /\ (IF slip = "graft_exclusive" THEN graft > earliest_block
                                    ELSE graft >= earliest_block)
            THEN Err("ConstraintViolation", e)
        ELSE IF stop = "cancel_before_floor" THEN Err("Canceled", e)
        ELSE IF f.res # "ok" THEN f
        ELSE IF stop = "cancel_after_floor" /\ slip # "cancel_late" THEN Err("Canceled", f.db)
        ELSE IF stop = "cancel_after_floor"
            THEN Err("Canceled", prune_by_copying(f.db, earliest_block, final_block, "none").db)
        ELSE prune_by_copying(f.db, earliest_block, final_block, stop)

prune_floor_first(d, graft, earliest_block, reorg_threshold, stop) ==
    prune_with_slip(d, graft, earliest_block, reorg_threshold, stop, "floor_first")

prune_floor_unchecked(d, graft, earliest_block, reorg_threshold, stop) ==
    prune_with_slip(d, graft, earliest_block, reorg_threshold, stop, "floor_unchecked")

prune_window_empty(d, graft, earliest_block, reorg_threshold, stop) ==
    prune_with_slip(d, graft, earliest_block, reorg_threshold, stop, "window_empty")

prune_graft_exclusive(d, graft, earliest_block, reorg_threshold, stop) ==
    prune_with_slip(d, graft, earliest_block, reorg_threshold, stop, "graft_exclusive")

prune_cancel_late(d, graft, earliest_block, reorg_threshold, stop) ==
    prune_with_slip(d, graft, earliest_block, reorg_threshold, stop, "cancel_late")

\* prune(reporter, site, earliest_block, reorg_threshold, prune_ratio)
prune(d, graft, earliest_block, reorg_threshold, stop) ==
    LET final_block == d.latest_block.number - reorg_threshold
        f == conn_transaction(d,
                IF stop = "set_earliest_block" THEN Err("StoreError", d)
                ELSE set_earliest_block(d, earliest_block))
    IN  IF stop = "layout" THEN Err("StoreError", d)
        ELSE IF stop = "cancel_after_layout" THEN Err("Canceled", d)
        ELSE IF stop = "state" \/ d.latest_block = NoPtr THEN Err("StoreError", d)
        ELSE IF d.latest_block.number <= reorg_threshold THEN Ok(d, "reporter")
        ELSE IF d.earliest_block_number > earliest_block THEN Err("ConstraintViolation", d)
        ELSE IF final_block <= earliest_block THEN Err("ConstraintViolation", d)
        ELSE IF stop = "graft_point" THEN Err("StoreError", d)
        ELSE IF graft # NoGraft /\ graft >= earliest_block THEN Err("ConstraintViolation", d)
        ELSE IF stop = "cancel_before_floor" THEN Err("Canceled", d)
        ELSE IF f.res # "ok" THEN f
        ELSE IF stop = "cancel_after_floor" THEN Err("Canceled", f.db)
        ELSE prune_by_copying(f.db, earliest_block, final_block, stop)

\* ------------------------------------------------------- proof of indexing

\* Option<Address> of the indexer
Indexers == {"None", "a1"}

\* SubgraphInfo::poi_version
PoiVersions == {"Legacy", "Fast"}

\* the values of the `digest` attribute that are Value::Bytes
DigestBytes == {"p0", "p1", "p2"}

\* the blocks a proof of indexing is asked for: any hash at a block number
PoiBlocks == [number : Blocks, hash : {"h1", "h2"}]

PoiStops == {"none", "cancel", "layout", "block_ptr", "cancel_in_transaction",
             "execute_query", "subgraph_info"}

\* a returned value: Some(v) = <<v>>, None = <<>>
Value(res, v) == [res |-> res, value |-> v]

\* execute_query of EntityCollection::All(POI_OBJECT) at block.number
poi_entities(versions, number) ==
    {v \in versions : v.key.entity_type = "Poi$" /\ v.start <= number /\ number < v.end}

\* the orders in which a HashMap over `regions` can be drained
DrainOrders(regions) ==
    {o \in [1 .. Cardinality(regions) -> regions] :
        \A i, j \in 1 .. Cardinality(regions) : i # j => o[i] # o[j]}

\* ProofOfIndexingFinisher::new
finisher_new(block, deployment, indexer, poi_version) ==
    [block |-> block, deployment |-> deployment, indexer |-> indexer,
     version |-> poi_version, regions |-> {}]

\* a finisher that chains the regions in the order they are added
add_causality_region_chained(finisher, name, region) ==
    [finisher EXCEPT !.regions = {<<name, region, Cardinality(@) + 1>>} \cup @]

\* ProofOfIndexingFinisher::add_causality_region: mixes the region's digest
\* into the state, under the region's name
add_causality_region(finisher, name, region) ==
    [finisher EXCEPT !.regions = @ \cup {<<name, region>>}]

\* the loop over by_causality_region.drain()
RECURSIVE add_regions(_, _, _, _)
add_regions(finisher, by_causality_region, order, i) ==
    IF i > Len(order) THEN finisher
    ELSE add_regions(add_causality_region(finisher, order[i], by_causality_region[order[i]]),
                     by_causality_region, order, i + 1)

\* a get_proof_of_indexing that turns down the head's own block number
get_proof_of_indexing_future_head(d, supports, poi_version, indexer, block, order, stop) ==
    LET entities == poi_entities(d.versions, block.number)
        regions == {e.key.entity_id : e \in entities}
        by_causality_region ==
            [r \in regions |-> (CHOOSE e \in entities : e.key.entity_id = r).data]
    IN  IF stop = "cancel" THEN Value("Canceled", <<>>)
        ELSE IF stop = "layout" THEN Value("StoreError", <<>>)
        ELSE IF ~supports THEN Value("ok", <<>>)
        ELSE IF stop = "block_ptr" THEN Value("StoreError", <<>>)
        ELSE IF d.latest_block = NoPtr THEN Value("ok", <<>>)
        ELSE IF stop = "cancel_in_transaction" THEN Value("Canceled", <<>>)
        ELSE IF d.latest_block.number <= block.number THEN Value("ok", <<>>)
        ELSE IF stop = "execute_query" THEN Value("StoreError", <<>>)
        ELSE IF \E e \in entities : e.data \notin DigestBytes THEN Value("StoreError", <<>>)
        ELSE IF stop = "subgraph_info" THEN Value("StoreError", <<>>)
        ELSE Value("ok", <<add_regions(finisher_new(block, "site", indexer, poi_version),
                                      by_causality_region, order, 1)>>)

\* get_proof_of_indexing(site, indexer, block); `supports` is
\* layout.supports_proof_of_indexing(), `poi_version` comes from the
\* subgraph info and `order` is the order the HashMap is drained in
get_proof_of_indexing(d, supports, poi_version, indexer, block, order, stop) ==
    LET entities == poi_entities(d.versions, block.number)
        regions == {e.key.entity_id : e \in entities}
        by_causality_region ==
            [r \in regions |-> (CHOOSE e \in entities : e.key.entity_id = r).data]
    IN  IF stop = "cancel" THEN Value("Canceled", <<>>)
        ELSE IF stop = "layout" THEN Value("StoreError", <<>>)
        ELSE IF ~supports THEN Value("ok", <<>>)
        ELSE IF stop = "block_ptr" THEN Value("StoreError", <<>>)
        ELSE IF d.latest_block = NoPtr THEN Value("ok", <<>>)
        ELSE IF stop = "cancel_in_transaction" THEN Value("Canceled", <<>>)
        ELSE IF d.latest_block.number < block.number THEN Value("ok", <<>>)
        ELSE IF stop = "execute_query" THEN Value("StoreError", <<>>)
        ELSE IF \E e \in entities : e.data \notin DigestBytes THEN Value("StoreError", <<>>)
        ELSE IF stop = "subgraph_info" THEN Value("StoreError", <<>>)
        ELSE Value("ok", <<add_regions(finisher_new(block, "site", indexer, poi_version),
                                      by_causality_region, order, 1)>>)

\* get: the entity of `key` as of `block`
get(d, key, block) == {v.data : v \in find(d.versions, key, block)}

\* ------------------------------------------------------------ state machine

NoUndo == [valid |-> FALSE, count |-> 0, live |-> {}]

\* the record of a call: `event` is the returned StoreEvent (Some = <<ev>>),
\* `undo` what the deployment held before the transact a revert takes back
Call(op, res, ptr, cursor, mods, event, undo) ==
    [op |-> op, res |-> res, ptr |-> ptr, cursor |-> cursor, mods |-> mods,
     event |-> event, undo |-> undo]

NoGraftSrc == [some |-> FALSE, src |-> [versions |-> {}, data_sources |-> {}, errors |-> {}],
               block |-> NoPtr]

GraftSrcs ==
    {[some |-> TRUE, src |-> s, block |-> b] :
        s \in SourceLayouts, b \in {p \in BlockPtrs : p.number \in GraftBlocks}}

\* the state after create_deployment: an empty deployment without a head,
\* created with or without a graft base
EmptyDeployment ==
    [latest_block |-> NoPtr, earliest_block_number |-> 0,
     firehose_cursor |-> "None", entity_count |-> 0,
     versions |-> {}, data_sources |-> {}, errors |-> {}]

Init ==
    /\ db = EmptyDeployment
    /\ graft_base \in {NoGraftSrc} \cup GraftSrcs
    /\ graft_block = IF graft_base.some THEN graft_base.block.number ELSE NoGraft
    /\ last = Call("create_deployment", "ok", NoPtr, "None", <<>>, <<>>, NoUndo)
    /\ router = new(0, <<>>, <<Main>>)
    /\ calls = [c \in Callers |-> Idle]
    /\ selected = [pool_weights |-> <<>>, window |-> <<>>]
    /\ status = HealthyStatus
    /\ caches = EmptyCaches
    /\ threads = [t \in Threads |-> IdleThread]
    /\ catalog = [migrating |-> [s \in Deployments |-> FALSE]]
    /\ schemas = NoSchemas
    /\ nebula = NoSession
    /\ writers = [w \in Writers |-> IdleWriter]

\* a graft is pending while a deployment created with a graft base has no head
GraftPending == graft_base.some /\ db.latest_block = NoPtr

\* the record of a start_subgraph call: whether it was given a graft source
\* and whether an earlier, interrupted run had left copied data behind
StartCall(res, graft, resumed) ==
    [op |-> "start_subgraph", res |-> res, graft |-> graft, resumed |-> resumed]

\* start_subgraph(site, graft_src); the graft source is passed while the
\* graft is pending
StartSubgraph ==
    \E fail \in GraftFailPoints :
      \E graft_src \in {IF GraftPending THEN graft_base ELSE NoGraftSrc} :
      \E copied \in SUBSET graft_src.src.versions :
        /\ \E r \in {start_subgraph(db, graft_src, copied, fail)} :
               /\ db' = r.db
               /\ last' = StartCall(r.res, graft_src.some, graft_src.some /\ db.versions # {})
        /\ UNCHANGED <<graft_base, graft_block, router, calls, selected, status, caches, threads, catalog, schemas, nebula, writers>>

\* transact_block_operations(site, block_ptr_to, firehose_cursor, mods, ..);
\* blocks are processed once a pending graft has been carried out
TransactBlockOperations ==
    \E block_ptr_to \in BlockPtrs, firehose_cursor \in Cursors \ {"None"}, mods \in Batches,
       data_sources \in SUBSET DataSourceNames, deterministic_errors \in SUBSET ErrorIds,
       offchain_to_remove \in SUBSET db.data_sources,
       fail \in TransactFailPoints :
        /\ ~GraftPending
        /\ Cardinality(data_sources) + Cardinality(deterministic_errors)
                + Cardinality(offchain_to_remove) <= MaxEffects
        /\ \E r \in {transact_block_operations(db, block_ptr_to, firehose_cursor, mods,
                         data_sources, deterministic_errors, offchain_to_remove, fail)} :
            /\ r.db.entity_count <= MaxCount
            /\ Cardinality(r.db.data_sources) + Cardinality(r.db.errors) <= MaxRows
            /\ db' = r.db
            /\ last' = IF r.res = "ok"
                       THEN Call("transact_block_operations", "ok", block_ptr_to,
                                 firehose_cursor, mods, r.event,
                                 [valid |-> TRUE, count |-> db.entity_count,
                                  live |-> live(db.versions)])
                       ELSE Call("transact_block_operations", r.res, NoPtr, "None", <<>>, r.event,
                                 NoUndo)
        /\ UNCHANGED <<graft_base, graft_block, router, calls, selected, status, caches, threads, catalog, schemas, nebula, writers>>

\* what a revert to `ptr` undoes: the successful transact right before it,
\* when that was at the block after `ptr`
UndoOf(ptr) ==
    IF last.op = "transact_block_operations" /\ last.res = "ok"
        /\ last.ptr.number = ptr.number + 1
    THEN last.undo
    ELSE NoUndo

\* the record of a prune call
PruneCall(res, earliest_block, reorg_threshold, stop) ==
    [op |-> "prune", res |-> res, earliest_block |-> earliest_block,
     reorg_threshold |-> reorg_threshold, stop |-> stop]

\* prune(reporter, site, earliest_block, reorg_threshold, prune_ratio)
Prune ==
    \E earliest_block \in Blocks, reorg_threshold \in ReorgThresholds, stop \in PruneStops :
        \E r \in {prune(db, graft_block, earliest_block, reorg_threshold, stop)} :
            /\ db' = r.db
            /\ last' = PruneCall(r.res, earliest_block, reorg_threshold, stop)
            /\ UNCHANGED <<graft_base, graft_block, router, calls, selected, status, caches, threads, catalog, schemas, nebula, writers>>

\* rewind(site, block_ptr_to)
Rewind ==
    \E block_ptr_to \in BlockPtrs, fail \in RewindFailPoints :
        \E r \in {rewind(db, graft_block, block_ptr_to, fail)} :
            /\ db' = r.db
            /\ last' = Call("rewind", r.res, block_ptr_to, "None", <<>>, <<>>,
                            IF r.res = "ok" THEN UndoOf(block_ptr_to) ELSE NoUndo)
            /\ UNCHANGED <<graft_base, graft_block, router, calls, selected, status, caches, threads, catalog, schemas, nebula, writers>>

\* revert_block_operations(site, block_ptr_to, firehose_cursor)
RevertBlockOperations ==
    \E block_ptr_to \in BlockPtrs, firehose_cursor \in Cursors, fail \in RewindFailPoints :
        \E r \in {revert_block_operations(db, graft_block, block_ptr_to, firehose_cursor, fail)} :
            /\ db' = r.db
            /\ last' = Call("revert_block_operations", r.res, block_ptr_to,
                            IF r.res = "ok" THEN firehose_cursor ELSE "None",
                            <<>>, <<>>,
                            IF r.res = "ok" THEN UndoOf(block_ptr_to) ELSE NoUndo)
            /\ UNCHANGED <<graft_base, graft_block, router, calls, selected, status, caches, threads, catalog, schemas, nebula, writers>>

Next ==
    \/ StartSubgraph
    \/ TransactBlockOperations
    \/ Rewind
    \/ RevertBlockOperations

Spec == Init /\ [][Next]_vars

\* the batches of the blocks indexed while the deployment is pruned
IndexBatches == {<<>>, <<Insert(Key("Dog"), "d1")>>}

\* transact_block_operations as the block stream calls it between prune
\* runs; the call is recorded without its arguments
IndexBlock ==
    \E block_ptr_to \in BlockPtrs, mods \in IndexBatches, fail \in TransactFailPoints :
        /\ ~GraftPending
        /\ \E r \in {transact_block_operations(db, block_ptr_to, "c1", mods, {}, {}, {}, fail)} :
            /\ r.db.entity_count <= MaxCount
            /\ db' = r.db
            /\ last' = Call("transact_block_operations", r.res, NoPtr, "None", <<>>, r.event,
                            NoUndo)
        /\ UNCHANGED <<graft_base, graft_block, router, calls, selected, status, caches, threads, catalog, schemas, nebula, writers>>

\* the record of a get_proof_of_indexing call
PoiCall(r, supports, poi_version, indexer, block, order) ==
    [op |-> "get_proof_of_indexing", res |-> r.res, value |-> r.value, supports |-> supports,
     poi_version |-> poi_version, indexer |-> indexer, block |-> block, order |-> order]

\* get_proof_of_indexing(site, indexer, block)
GetProofOfIndexing ==
    \E supports \in BOOLEAN, poi_version \in PoiVersions, indexer \in Indexers,
       block \in PoiBlocks, stop \in PoiStops :
        \E order \in DrainOrders({e.key.entity_id : e \in poi_entities(db.versions, block.number)}) :
            /\ last' = PoiCall(get_proof_of_indexing(db, supports, poi_version, indexer, block,
                                                     order, stop),
                               supports, poi_version, indexer, block, order)
            /\ UNCHANGED <<db, graft_base, graft_block, router, calls, selected, status, caches, threads, catalog, schemas, nebula, writers>>

\* the deployment under grafting, indexing and proof-of-indexing queries
NextPoi ==
    \/ StartSubgraph
    \/ IndexBlock
    \/ GetProofOfIndexing

SpecPoi == Init /\ [][NextPoi]_vars

\* the record of a fail_subgraph or unfail call and its result
UnfailCall(op, res) == [op |-> op, res |-> res]

\* fail_subgraph(id, error), for an error of the block at the head
FailSubgraph ==
    \E error \in SubgraphErrors :
        /\ db.latest_block # NoPtr
        /\ error.block = db.latest_block.number
        /\ \E r \in {deployment_fail(db, status, error)} :
            /\ db' = r.db
            /\ status' = r.status
            /\ last' = UnfailCall("fail_subgraph", r.res)
        /\ UNCHANGED <<graft_base, graft_block, router, calls, selected, caches, threads, catalog, schemas, nebula, writers>>

\* unfail_deterministic_error(site, current_ptr, parent_ptr), called with the
\* number of the head and the hash of either fork
UnfailDeterministicError ==
    \E current_ptr \in UnfailPtrs, parent_ptr \in BlockPtrs, fail \in UnfailFailPoints :
        /\ fail # "delete_error"
        /\ current_ptr.number = db.latest_block.number
        /\ \E r \in {unfail_deterministic_error(db, status, graft_block, current_ptr, parent_ptr, fail)} :
            /\ db' = r.db
            /\ status' = r.status
            /\ last' = UnfailCall("unfail_deterministic_error", r.res)
        /\ UNCHANGED <<graft_base, graft_block, router, calls, selected, caches, threads, catalog, schemas, nebula, writers>>

\* unfail_non_deterministic_error(site, current_ptr)
UnfailNonDeterministicError ==
    \E current_ptr \in UnfailPtrs, fail \in UnfailFailPoints :
        /\ fail \notin {"has_deterministic_errors", "revert_block"}
        /\ \E r \in {unfail_non_deterministic_error(db, status, current_ptr, fail)} :
            /\ db' = r.db
            /\ status' = r.status
            /\ last' = UnfailCall("unfail_non_deterministic_error", r.res)
        /\ UNCHANGED <<graft_base, graft_block, router, calls, selected, caches, threads, catalog, schemas, nebula, writers>>

\* the deployment under indexing, failures and failure recovery
NextUnfail ==
    \/ StartSubgraph
    \/ IndexBlock
    \/ FailSubgraph
    \/ UnfailDeterministicError
    \/ UnfailNonDeterministicError

SpecUnfail == Init /\ [][NextUnfail]_vars

\* a store that was just built, over deployments with or without a pending migration
InitCaches ==
    /\ db = EmptyDeployment
    /\ graft_base = NoGraftSrc
    /\ graft_block = NoGraft
    /\ last = Call("create_deployment", "ok", NoPtr, "None", <<>>, <<>>, NoUndo)
    /\ router = new(0, <<>>, <<Main>>)
    /\ calls = [c \in Callers |-> Idle]
    /\ selected = [pool_weights |-> <<>>, window |-> <<>>]
    /\ status = HealthyStatus
    /\ caches = EmptyCaches
    /\ threads = [t \in Threads |-> IdleThread]
    /\ catalog \in [migrating : [Deployments -> BOOLEAN]]
    /\ schemas = NoSchemas
    /\ nebula = NoSession
    /\ writers = [w \in Writers |-> IdleWriter]

\* subgraph_info(site): the lookup under the lock; a miss goes on to get_conn
SubgraphInfo ==
    \E t \in Threads, site \in Deployments :
        /\ threads[t].pc = "idle"
        /\ \E g \in {cached_info(caches.subgraph_cache, site)} :
            /\ caches' = [caches EXCEPT !.subgraph_cache = g.cache]
            /\ threads' = [threads EXCEPT ![t] =
                    IF g.found
                    THEN Returning(At("return", "subgraph_info", site), "ok", g.value,
                                   NoLayout, "cache", FALSE)
                    ELSE At("get_conn", "subgraph_info", site)]
        /\ UNCHANGED <<db, graft_base, graft_block, last, router, calls, selected, status, catalog, schemas, nebula, writers>>

\* self.get_conn()? of subgraph_info and of find_layout
GetConn ==
    \E t \in Threads, ok \in BOOLEAN :
        /\ threads[t].pc = "get_conn"
        /\ threads' = [threads EXCEPT ![t] =
                IF ok THEN [@ EXCEPT !.pc = "with_conn"]
                ELSE Returning(@, "StoreError", NoInfo, NoLayout, "-", FALSE)]
        /\ UNCHANGED <<db, graft_base, graft_block, last, router, calls, selected, status, caches, catalog, schemas, nebula, writers>>

\* subgraph_info_with_conn(conn, site), called by subgraph_info or by a
\* caller that holds a connection: the lookup under the lock
SubgraphInfoWithConn ==
    \E t \in Threads, site \in Deployments :
        /\ \/ threads[t].pc = "idle"
           \/ threads[t].pc = "with_conn" /\ threads[t].op = "subgraph_info"
                /\ threads[t].site = site
        /\ \E g \in {cached_info(caches.subgraph_cache, site)} :
            /\ caches' = [caches EXCEPT !.subgraph_cache = g.cache]
            /\ threads' = [threads EXCEPT ![t] =
                    IF g.found
                    THEN Returning(At("return", "subgraph_info", site), "ok", g.value,
                                   NoLayout, "cache", FALSE)
                    ELSE At("derive", "subgraph_info", site)]
        /\ UNCHANGED <<db, graft_base, graft_block, last, router, calls, selected, status, catalog, schemas, nebula, writers>>

\* the derivation of subgraph_info_with_conn, outside the lock: the reads
\* of the manifest and the graft point and the generation of the API schema
DeriveInfo ==
    \E t \in Threads, ok \in BOOLEAN :
        /\ threads[t].pc = "derive"
        /\ threads' = [threads EXCEPT ![t] =
                IF ok THEN [@ EXCEPT !.pc = "insert", !.info = derive_info(threads[t].site)]
                ELSE Returning(@, "StoreError", NoInfo, NoLayout, "-", FALSE)]
        /\ UNCHANGED <<db, graft_base, graft_block, last, router, calls, selected, status, caches, catalog, schemas, nebula, writers>>

\* the insertion into the cache and the read of the inserted entry
InsertInfo ==
    \E t \in Threads :
        /\ threads[t].pc = "insert"
        /\ \E r \in {insert_info(caches.subgraph_cache, threads[t].site, threads[t].info)} :
            /\ caches' = [caches EXCEPT !.subgraph_cache = r.cache]
            /\ threads' = [threads EXCEPT ![t] =
                    Returning(@, r.res, r.value, NoLayout, "storage", FALSE)]
        /\ UNCHANGED <<db, graft_base, graft_block, last, router, calls, selected, status, catalog, schemas, nebula, writers>>

\* the call returns to its caller
ReturnToCaller ==
    \E t \in Threads :
        /\ threads[t].pc = "return"
        /\ threads' = [threads EXCEPT ![t] = IdleThread]
        /\ UNCHANGED <<db, graft_base, graft_block, last, router, calls, selected, status, caches, catalog, schemas, nebula, writers>>

\* concurrent requests for the metadata of the deployments
NextSubgraphCache ==
    \/ SubgraphInfo
    \/ GetConn
    \/ SubgraphInfoWithConn
    \/ DeriveInfo
    \/ InsertInfo
    \/ ReturnToCaller

SpecSubgraphCache == InitCaches /\ [][NextSubgraphCache]_vars

\* layout(conn, site)
LayoutCall ==
    \E t \in Threads, site \in Deployments, fail \in BOOLEAN :
        /\ \/ threads[t].pc = "idle"
           \/ threads[t].pc = "with_conn" /\ threads[t].op = "find_layout"
                /\ threads[t].site = site
        /\ \E r \in {layout(caches.layout_cache, catalog, site, fail)} :
            /\ caches' = [caches EXCEPT !.layout_cache = r.cache]
            /\ threads' = [threads EXCEPT ![t] =
                    Returning(At("return", IF @.pc = "idle" THEN "layout" ELSE "find_layout", site),
                              r.res, NoInfo, r.layout, r.served, catalog.migrating[site])]
        /\ UNCHANGED <<db, graft_base, graft_block, last, router, calls, selected, status, catalog, schemas, nebula, writers>>

\* find_layout(site): the lookup in the cache; a miss goes on to get_conn
FindLayout ==
    \E t \in Threads, site \in Deployments :
        /\ threads[t].pc = "idle"
        /\ threads' = [threads EXCEPT ![t] =
                IF layout_cache_find(caches.layout_cache, site) # NoLayout
                THEN Returning(At("return", "find_layout", site), "ok", NoInfo,
                               layout_cache_find(caches.layout_cache, site), "cache",
                               catalog.migrating[site])
                ELSE At("get_conn", "find_layout", site)]
        /\ UNCHANGED <<db, graft_base, graft_block, last, router, calls, selected, status, caches, catalog, schemas, nebula, writers>>

\* the pending migration of a deployment completes
CompleteMigration ==
    \E site \in Deployments :
        /\ catalog.migrating[site]
        /\ catalog' = [catalog EXCEPT !.migrating[site] = FALSE]
        /\ UNCHANGED <<db, graft_base, graft_block, last, router, calls, selected, status, caches, threads, schemas, nebula, writers>>

\* concurrent requests for the layouts of the deployments while migrations complete
NextLayoutCache ==
    \/ LayoutCall
    \/ FindLayout
    \/ GetConn
    \/ CompleteMigration
    \/ ReturnToCaller

SpecLayoutCache == InitCaches /\ [][NextLayoutCache]_vars

\* the stores DeploymentStore::new builds, before any deployment is touched
InitStore ==
    /\ db = EmptyDeployment
    /\ graft_base = NoGraftSrc
    /\ graft_block = NoGraft
    /\ last = Call("create_deployment", "ok", NoPtr, "None", <<>>, <<>>, NoUndo)
    /\ \E read_only_pools \in PoolCounts, pool_weights \in PoolWeights :
        \E shuffled \in Shuffles(replica_list(resize(pool_weights, read_only_pools + 1, 1), 1)) :
            /\ router = new(read_only_pools, pool_weights, shuffled)
            /\ selected = [pool_weights |-> pool_weights, window |-> <<>>]
    /\ calls = [c \in Callers |-> Idle]
    /\ status = HealthyStatus
    /\ caches = EmptyCaches
    /\ threads = [t \in Threads |-> IdleThread]
    /\ catalog = [migrating |-> [s \in Deployments |-> FALSE]]
    /\ schemas = NoSchemas
    /\ nebula = NoSession
    /\ writers = [w \in Writers |-> IdleWriter]

\* the latest selections, at most as many as replica_order is long
Latest(window, n) ==
    IF Len(window) <= n THEN window ELSE SubSeq(window, Len(window) - n + 1, Len(window))

\* a caller enters replica_for_query and takes its counter value
ReplicaForQuery ==
    \E c \in Callers, for_subscription \in BOOLEAN :
        /\ calls[c] = Idle
        /\ \E r \in {replica_for_query(router, for_subscription)} :
            /\ router' = r.store
            /\ calls' = [calls EXCEPT ![c] = [res |-> r.res, replica |-> r.replica,
                                              for_subscription |-> for_subscription]]
            /\ selected' =
                    IF for_subscription \/ r.res # "ok" THEN selected
                    ELSE [selected EXCEPT !.window =
                            Latest(Append(@, [value |-> router.conn_round_robin_counter,
                                              replica |-> r.replica]),
                                   Len(router.replica_order))]
        /\ UNCHANGED <<db, graft_base, graft_block, last, status, caches, threads, catalog, schemas, nebula, writers>>

\* replica_for_query returns to its caller
ReturnReplica ==
    \E c \in Callers :
        /\ calls[c] # Idle
        /\ calls' = [calls EXCEPT ![c] = Idle]
        /\ UNCHANGED <<db, graft_base, graft_block, last, router, selected, status, caches, threads, catalog, schemas, nebula, writers>>

NextRouter ==
    \/ ReplicaForQuery
    \/ ReturnReplica

SpecRouter == InitStore /\ [][NextRouter]_vars

\* the deployment under indexing, reverts and pruning
NextPrune ==
    \/ StartSubgraph
    \/ IndexBlock
    \/ RevertBlockOperations
    \/ Prune

SpecPrune == Init /\ [][NextPrune]_vars

\* the record of a create_deployment call
CreateCall(res, transaction, replace) ==
    [op |-> "create_deployment", res |-> res, transaction |-> transaction,
     replace |-> replace]

\* create_deployment(schema, deployment, site, graft_base, replace)
CreateDeployment ==
    \E schema \in SUBSET SchemaTypes, deployment \in Manifests,
       base \in GraftBaseLayouts, replace \in BOOLEAN,
       private_data_sources \in BOOLEAN, order \in TableOrders,
       fail \in CreateFailPoints :
        \E r \in {create_deployment(schemas, schema, deployment, base, replace,
                      private_data_sources, order, fail)} :
            /\ schemas' = r.db
            /\ nebula' = [requests |-> r.requests]
            /\ last' = CreateCall(r.res, r.transaction, replace)
            /\ UNCHANGED <<db, graft_base, graft_block, router, calls, selected, status, caches, threads, catalog, writers>>

NextCreate == CreateDeployment

SpecCreate == Init /\ [][NextCreate]_vars

\* ------------------------------------------- concurrent writers, step by step

\* the positions at which a writer is inside its transaction and has taken
\* the deployment lock
LockedPcs == {"apply_entity_modifications", "transact_block",
              "revert_block_ptr", "revert_block", "commit"}

Locked(wr) == wr.pc \in LockedPcs

\* a deployment lock that is granted whoever else holds it
deployment_lock_shared(ws, w) == TRUE

\* deployment::lock(conn, site): granted when no other writer's transaction
\* holds the lock of the deployment; held until that transaction ends
deployment_lock(ws, w) == \A o \in Writers \ {w} : ~Locked(ws[o])

\* the blocks the concurrent writers write and revert to
MaxWriterBlock == 2
WriterPtrs == {p \in BlockPtrs : p.number <= MaxWriterBlock}

\* a writer that has entered a call: `txn` is the working copy of its
\* transaction, `writes` the mutations made in it, `head` the head number
\* that was current when it took the lock, `session` its mirror requests
WriterCall(op, pc, block_ptr_to, mods) ==
    [pc |-> pc, op |-> op, ptr |-> block_ptr_to, mods |-> mods,
     txn |-> EmptyDeployment, writes |-> 0, head |-> NoGraft, committed |-> FALSE,
     res |-> "-", session |-> <<>>, count |-> 0]

\* the writer after its call has returned `res`
Returned(wr, res) ==
    [wr EXCEPT !.pc = "returned", !.res = res, !.txn = EmptyDeployment, !.writes = 0,
               !.mods = <<>>, !.count = 0]

\* a transact_block_operations that goes on to the mirror store whatever
\* the transaction returned
transaction_returned_unchecked(wr, res) ==
    [wr EXCEPT !.pc = "new_from_conf", !.committed = (res = "ok"), !.txn = EmptyDeployment,
               !.writes = 0, !.mods = <<>>, !.count = 0]

\* `conn.transaction(..)?` of transact_block_operations: an Err is returned
\* to the caller, after Ok the call goes on to the mirror store
transaction_returned(wr, res) ==
    IF res = "ok"
    THEN [wr EXCEPT !.pc = "new_from_conf", !.committed = TRUE, !.txn = EmptyDeployment,
                    !.writes = 0, !.mods = <<>>, !.count = 0]
    ELSE Returned(wr, res)

\* transact_block_operations up to the lock: get_conn, the start of the
\* transaction, StoreEvent::from_mods and self.layout
TransactBegin(w) ==
    \E block_ptr_to \in WriterPtrs, mods \in IndexBatches,
       fail \in {"none", "get_conn", "layout"} :
        /\ writers[w].pc \in {"idle", "returned"}
        /\ db.latest_block # NoPtr
        /\ writers' = [writers EXCEPT ![w] =
                IF fail = "none"
                THEN WriterCall("transact_block_operations", "lock", block_ptr_to, mods)
                ELSE Returned(WriterCall("transact_block_operations", "lock", block_ptr_to, mods),
                              "StoreError")]
        /\ UNCHANGED <<db, graft_base, graft_block, last, router, calls, selected, status, caches, threads, catalog, schemas, nebula>>

\* rewind and revert_block_operations up to rewind_with_conn: get_conn, the
\* head is read and unwrapped, and the target is compared with it; rewind
\* drops the constraint violation it builds, revert_block_operations panics
RevertBegin(w) ==
    \E op \in {"rewind", "revert_block_operations"}, block_ptr_to \in WriterPtrs,
       fail \in {"none", "get_conn"} :
        /\ writers[w].pc \in {"idle", "returned"}
        /\ db.latest_block # NoPtr
        /\ writers' = [writers EXCEPT ![w] =
                LET wr == WriterCall(op, "lock", block_ptr_to, <<>>)
                IN  IF fail = "get_conn" THEN Returned(wr, "StoreError")
                    ELSE IF op = "revert_block_operations"
                            /\ block_ptr_to.number >= db.latest_block.number
                    THEN Returned(wr, "panic")
                    ELSE wr]
        /\ UNCHANGED <<db, graft_base, graft_block, last, router, calls, selected, status, caches, threads, catalog, schemas, nebula>>

\* deployment::lock inside the transaction; the statements that follow see
\* what is committed when the lock is granted. rewind_with_conn then reads
\* the subgraph info and rejects a target before the graft block
Lock(w) ==
    /\ writers[w].pc = "lock"
    /\ deployment_lock(writers, w)
    /\ writers' = [writers EXCEPT ![w] =
            LET wr == [@ EXCEPT !.txn = db, !.head = db.latest_block.number]
            IN  IF wr.op = "transact_block_operations"
                THEN [wr EXCEPT !.pc = "apply_entity_modifications"]
                ELSE IF graft_block # NoGraft /\ graft_block > wr.ptr.number
                THEN Returned(wr, "RevertPastGraft")
                ELSE [wr EXCEPT !.pc = "revert_block_ptr"]]
    /\ UNCHANGED <<db, graft_base, graft_block, last, router, calls, selected, status, caches, threads, catalog, schemas, nebula>>

\* the statements of the two closures, one per step, on the working copy
Statement(w) ==
    /\ Locked(writers[w]) /\ writers[w].pc # "commit"
    /\ writers' = [writers EXCEPT ![w] =
            LET wr == @
            IN  CASE wr.pc = "apply_entity_modifications" ->
                        LET a == apply_entity_modifications(wr.txn.versions, wr.mods, wr.ptr)
                        IN  [wr EXCEPT !.pc = "transact_block", !.txn.versions = a.versions,
                                       !.count = a.count, !.writes = @ + 1]
                  [] wr.pc = "transact_block" ->
                        LET t == transact_block(wr.txn, wr.ptr, "c1", wr.count)
                        IN  IF t.res = "ok"
                            THEN [wr EXCEPT !.pc = "commit", !.txn = t.db, !.writes = @ + 1]
                            ELSE transaction_returned(wr, t.res)
                  [] wr.pc = "revert_block_ptr" ->
                        [wr EXCEPT !.pc = "revert_block", !.writes = @ + 1,
                                   !.txn = revert_block_ptr(@, wr.ptr, "None")]
                  [] wr.pc = "revert_block" ->
                        LET block == wr.ptr.number + 1
                            rb == revert_block(wr.txn.versions, block)
                            d2 == [wr.txn EXCEPT !.versions = rb.versions]
                        IN  [wr EXCEPT !.pc = "commit", !.writes = @ + 1,
                                       !.txn = update_entity_count(revert_metadata(d2, block),
                                                                   rb.count)]]
    /\ writers'[w].txn.entity_count <= MaxCount
    /\ UNCHANGED <<db, graft_base, graft_block, last, router, calls, selected, status, caches, threads, catalog, schemas, nebula>>

\* a statement of the closure fails: the transaction is rolled back, which
\* releases the lock, and the error is returned
Abort(w) ==
    /\ writers[w].pc \in LockedPcs \cup {"lock"}
    /\ writers[w].pc # "commit"
    /\ writers' = [writers EXCEPT ![w] =
            IF @.op = "transact_block_operations"
            THEN transaction_returned(@, "StoreError")
            ELSE Returned(@, "StoreError")]
    /\ UNCHANGED <<db, graft_base, graft_block, last, router, calls, selected, status, caches, threads, catalog, schemas, nebula>>

\* the closure returned Ok: the working copy is committed and the lock is
\* released; rewind_with_conn returns, transact_block_operations goes on
Commit(w) ==
    /\ writers[w].pc = "commit"
    /\ db' = writers[w].txn
    /\ writers' = [writers EXCEPT ![w] =
            IF @.op = "transact_block_operations"
            THEN transaction_returned(@, "ok")
            ELSE [Returned(@, "ok") EXCEPT !.committed = TRUE]]
    /\ UNCHANGED <<graft_base, graft_block, last, router, calls, selected, status, caches, threads, catalog, schemas, nebula>>

\* the mirror writes of transact_block_operations: the session is opened
\* and authenticated (unwrapped), the tags and edges are inserted, and the
\* session is signed out
Mirror(w) ==
    \E fail \in {"none", "nebula"} :
        /\ writers[w].pc \in {"new_from_conf", "insert_tags", "signout"}
        /\ writers' = [writers EXCEPT ![w] =
                LET wr == @
                IN  CASE wr.pc = "new_from_conf" ->
                            IF fail = "nebula" THEN [wr EXCEPT !.pc = "returned", !.res = "panic"]
                            ELSE [wr EXCEPT !.pc = "insert_tags", !.session = <<"authenticate">>]
                      [] wr.pc = "insert_tags" ->
                            [wr EXCEPT !.pc = "signout",
                                       !.session = @ \o <<"insert_tags", "insert_edges">>]
                      [] wr.pc = "signout" ->
                            [wr EXCEPT !.pc = "returned", !.res = "ok",
                                       !.session = @ \o <<"signout">>]]
        /\ UNCHANGED <<db, graft_base, graft_block, last, router, calls, selected, status, caches, threads, catalog, schemas, nebula>>

\* a deployment with a head, without a graft base, and no writer at work
InitWriters ==
    /\ Init
    /\ ~graft_base.some

\* the first block of the deployment
StartWriters ==
    /\ db.latest_block = NoPtr
    /\ db' = initialize_block_ptr(db)
    /\ UNCHANGED <<graft_base, graft_block, last, router, calls, selected, status, caches, threads, catalog, schemas, nebula, writers>>

NextWriters ==
    \/ StartWriters
    \/ \E w \in Writers :
        \/ TransactBegin(w)
        \/ RevertBegin(w)
        \/ Lock(w)
        \/ Statement(w)
        \/ Abort(w)
        \/ Commit(w)
        \/ Mirror(w)

SpecWriters == InitWriters /\ [][NextWriters]_vars

\* ------------------------------------------------ concurrent prune calls

\* a prune call in progress: `state` is the DeploymentState it has read and
\* `written` tells whether its floor has been persisted
PruneRun(pc, earliest_block, reorg_threshold, state, written, res) ==
    [pc |-> pc, op |-> "prune", earliest_block |-> earliest_block,
     reorg_threshold |-> reorg_threshold, state |-> state, written |-> written, res |-> res]

\* the DeploymentState of deployment::state: the head number and the floor
DeploymentState(d) ==
    [latest_block |-> d.latest_block.number, earliest_block_number |-> d.earliest_block_number]

NoState == [latest_block |-> 0, earliest_block_number |-> 0]

\* prune up to deployment::state: the layout, check_cancel, and the read of
\* the deployment state on the connection, outside any transaction
PruneRead(w) ==
    \E earliest_block \in Blocks, reorg_threshold \in ReorgThresholds,
       stop \in {"none", "layout", "state"} :
        /\ writers[w].pc \in {"idle", "returned"}
        /\ db.latest_block # NoPtr
        /\ writers' = [writers EXCEPT ![w] =
                IF stop = "none"
                THEN PruneRun("validate", earliest_block, reorg_threshold, DeploymentState(db),
                              FALSE, "-")
                ELSE PruneRun("returned", earliest_block, reorg_threshold, NoState, FALSE,
                              "StoreError")]
        /\ UNCHANGED <<db, graft_base, graft_block, last, router, calls, selected, status, caches, threads, catalog, schemas, nebula>>

\* the checks of prune on the state it has read
PruneValidate(w) ==
    /\ writers[w].pc = "validate"
    /\ writers' = [writers EXCEPT ![w] =
            LET state == @.state
                final_block == state.latest_block - @.reorg_threshold
            IN  IF state.latest_block <= @.reorg_threshold
                THEN [@ EXCEPT !.pc = "returned", !.res = "ok", !.state = NoState]
                ELSE IF state.earliest_block_number > @.earliest_block
                        \/ final_block <= @.earliest_block
                        \/ (graft_block # NoGraft /\ graft_block >= @.earliest_block)
                THEN [@ EXCEPT !.pc = "returned", !.res = "ConstraintViolation",
                               !.state = NoState]
                ELSE [@ EXCEPT !.pc = "set_earliest_block"]]
    /\ UNCHANGED <<db, graft_base, graft_block, last, router, calls, selected, status, caches, threads, catalog, schemas, nebula>>

\* the transaction that persists the floor
PruneSetEarliestBlock(w) ==
    \E stop \in {"none", "set_earliest_block"} :
        /\ writers[w].pc = "set_earliest_block"
        /\ \E f \in {conn_transaction(db,
                        IF stop = "set_earliest_block" THEN Err("StoreError", db)
                        ELSE set_earliest_block(db, writers[w].earliest_block))} :
            /\ db' = f.db
            /\ writers' = [writers EXCEPT ![w] =
                    IF f.res = "ok"
                    THEN [@ EXCEPT !.pc = "prune_by_copying", !.written = TRUE]
                    ELSE [@ EXCEPT !.pc = "returned", !.res = f.res, !.state = NoState]]
        /\ UNCHANGED <<graft_base, graft_block, last, router, calls, selected, status, caches, threads, catalog, schemas, nebula>>

\* layout.prune_by_copying with the window computed from the state read
PruneByCopying(w) ==
    \E stop \in {"none", "prune_by_copying"} :
        /\ writers[w].pc = "prune_by_copying"
        /\ \E r \in {prune_by_copying(db, writers[w].earliest_block,
                        writers[w].state.latest_block - writers[w].reorg_threshold, stop)} :
            /\ db' = r.db
            /\ writers' = [writers EXCEPT ![w] =
                    [@ EXCEPT !.pc = "returned", !.res = r.res, !.state = NoState]]
        /\ UNCHANGED <<graft_base, graft_block, last, router, calls, selected, status, caches, threads, catalog, schemas, nebula>>

\* a deployment that has been indexed up to some block and never pruned
InitPruners ==
    /\ \E head \in BlockPtrs : db = [EmptyDeployment EXCEPT !.latest_block = head]
    /\ graft_base = NoGraftSrc
    /\ graft_block = NoGraft
    /\ last = Call("create_deployment", "ok", NoPtr, "None", <<>>, <<>>, NoUndo)
    /\ router = new(0, <<>>, <<Main>>)
    /\ calls = [c \in Callers |-> Idle]
    /\ selected = [pool_weights |-> <<>>, window |-> <<>>]
    /\ status = HealthyStatus
    /\ caches = EmptyCaches
    /\ threads = [t \in Threads |-> IdleThread]
    /\ catalog = [migrating |-> [s \in Deployments |-> FALSE]]
    /\ schemas = NoSchemas
    /\ nebula = NoSession
    /\ writers = [w \in Writers |-> IdleWriter]

\* two prune calls at a time
NextPruners ==
    \E w \in Writers :
        \/ PruneRead(w)
        \/ PruneValidate(w)
        \/ PruneSetEarliestBlock(w)
        \/ PruneByCopying(w)

SpecPruners == InitPruners /\ [][NextPruners]_vars

\* ------------------------------------- unfail calls on a bounded main pool

\* the number of connections of the main pool
PoolSize == 2

\* the connections of the main pool that no call holds
Free(ws) ==
    LET held(w) == IF "conns" \in DOMAIN ws[w] THEN ws[w].conns ELSE 0
    IN  PoolSize - (held("w1") + held("w2"))

\* self.pool.get(): a connection is handed out when one is free
pool_get(ws) == Free(ws) > 0

\* an unfail_deterministic_error call in progress and the connections it holds
UnfailRun(pc, current_ptr, parent_ptr, conns, res) ==
    [pc |-> pc, op |-> "unfail_deterministic_error", current_ptr |-> current_ptr,
     parent_ptr |-> parent_ptr, conns |-> conns, res |-> res]

\* the match arm of unfail_deterministic_error that reverts: the fatal error
\* is deterministic and was recorded for the hash of `current_ptr`
reverts_errored_block(st, current_ptr) ==
    LET subgraph_error == ErrorDetail_fatal(st)
    IN  /\ subgraph_error.some
        /\ subgraph_error.deterministic
        /\ subgraph_error.block_hash # NoHash
        /\ subgraph_error.block_hash = current_ptr.hash

\* unfail_deterministic_error: `let conn = &self.get_conn()?`
UnfailGetConn(w) ==
    \E current_ptr \in UnfailPtrs, parent_ptr \in BlockPtrs :
        /\ writers[w].pc \in {"idle", "returned"}
        /\ current_ptr.number = db.latest_block.number
        /\ parent_ptr.number + 1 = current_ptr.number
        /\ pool_get(writers)
        /\ writers' = [writers EXCEPT ![w] =
                UnfailRun("transaction", current_ptr, parent_ptr, 1, "-")]
        /\ UNCHANGED <<db, graft_base, graft_block, last, router, calls, selected, status, caches, threads, catalog, schemas, nebula>>

\* the transaction up to the match on the error's block hash; a call that
\* does not revert finishes and gives its connection back
UnfailTransaction(w) ==
    \E fail \in {"none", "fatal", "has_deterministic_errors"} :
        /\ writers[w].pc = "transaction"
        /\ \E r \in {unfail_deterministic_error(db, status, graft_block, writers[w].current_ptr,
                         writers[w].parent_ptr, fail)} :
            IF fail = "none" /\ reverts_errored_block(status, writers[w].current_ptr)
            THEN /\ writers' = [writers EXCEPT ![w].pc = "revert_block_operations"]
                 /\ UNCHANGED <<db, status>>
            ELSE /\ writers' = [writers EXCEPT ![w] =
                        UnfailRun("returned", NoPtr, NoPtr, 0, r.res)]
                 /\ db' = r.db
                 /\ status' = r.status
        /\ UNCHANGED <<graft_base, graft_block, last, router, calls, selected, caches, threads, catalog, schemas, nebula>>

\* self.revert_block_operations: `let conn = self.get_conn()?` takes a
\* second connection of the same pool while the call holds its first
RevertGetConn(w) ==
    /\ writers[w].pc = "revert_block_operations"
    /\ pool_get(writers)
    /\ writers' = [writers EXCEPT ![w].pc = "rewind_with_conn", ![w].conns = 2]
    /\ UNCHANGED <<db, graft_base, graft_block, last, router, calls, selected, status, caches, threads, catalog, schemas, nebula>>

\* the wait for the second connection ends with an error of the pool
RevertGetConnFails(w) ==
    /\ writers[w].pc = "revert_block_operations"
    /\ ~pool_get(writers)
    /\ writers' = [writers EXCEPT ![w] = UnfailRun("returned", NoPtr, NoPtr, 0, "StoreError")]
    /\ UNCHANGED <<db, graft_base, graft_block, last, router, calls, selected, status, caches, threads, catalog, schemas, nebula>>

\* the revert on the second connection, the status update on the first,
\* and the return of both connections
UnfailRevert(w) ==
    \E fail \in {"none", "revert_block", "update_deployment_status"} :
        /\ writers[w].pc = "rewind_with_conn"
        /\ \E r \in {unfail_deterministic_error(db, status, graft_block, writers[w].current_ptr,
                         writers[w].parent_ptr, fail)} :
            /\ writers' = [writers EXCEPT ![w] = UnfailRun("returned", NoPtr, NoPtr, 0, r.res)]
            /\ db' = r.db
            /\ status' = r.status
        /\ UNCHANGED <<graft_base, graft_block, last, router, calls, selected, caches, threads, catalog, schemas, nebula>>

\* a deployment that was indexed up to some block and is healthy or has
\* failed at its head
InitPool ==
    /\ \E head \in BlockPtrs, error \in SubgraphErrors \cup {NoError} :
        /\ error.block = (IF error.some THEN head.number ELSE 0)
        /\ \E d \in {[EmptyDeployment EXCEPT !.latest_block = head]} :
            /\ db = IF error.some THEN deployment_fail(d, HealthyStatus, error).db ELSE d
            /\ status = IF error.some THEN deployment_fail(d, HealthyStatus, error).status
                        ELSE HealthyStatus
    /\ graft_base = NoGraftSrc
    /\ graft_block = NoGraft
    /\ last = Call("create_deployment", "ok", NoPtr, "None", <<>>, <<>>, NoUndo)
    /\ router = new(0, <<>>, <<Main>>)
    /\ calls = [c \in Callers |-> Idle]
    /\ selected = [pool_weights |-> <<>>, window |-> <<>>]
    /\ caches = EmptyCaches
    /\ threads = [t \in Threads |-> IdleThread]
    /\ catalog = [migrating |-> [s \in Deployments |-> FALSE]]
    /\ schemas = NoSchemas
    /\ nebula = NoSession
    /\ writers = [w \in Writers |-> IdleWriter]

\* as many unfail calls at a time as the main pool has connections
NextPool ==
    \E w \in Writers :
        \/ UnfailGetConn(w)
        \/ UnfailTransaction(w)
        \/ RevertGetConn(w)
        \/ RevertGetConnFails(w)
        \/ UnfailRevert(w)

SpecPool == InitPool /\ [][NextPool]_vars

\* ------------------------------------------------------------------ properties

Transact == "transact_block_operations"
Reverts == {"rewind", "revert_block_operations"}

\* the errors a call returns (a panic is not one of them)
Errors == {"StoreError", "DuplicateBlockProcessing", "RevertPastGraft", "ConflictingId",
           "ConstraintViolation", "Canceled"}

\* C1: a transact_block_operations call that fails in a step of its
\* transaction leaves entity versions, dynamic data sources, error records,
\* head, cursor and entity count as they were and returns no event
C1_TransactAllOrNothing ==
    [][(last'.op = Transact /\ last'.res \in Errors) => (db' = db /\ last'.event = <<>>)]_vars

\* a failed transact on a deployment that holds a head, data and metadata
C1_Witness ==
    /\ last.op = Transact /\ last.res = "StoreError"
    /\ db.latest_block # NoPtr /\ db.versions # {} /\ db.data_sources # {}

\* C2: after a successful transact_block_operations(block_to, mods) every
\* inserted or overwritten key has an open version that starts at
\* block_to.number and holds the data, with no other version valid there,
\* and every removed key has no open version
C2_ModsApplied ==
    (last.op = Transact /\ last.res = "ok") =>
        \A i \in 1 .. Len(last.mods) :
            IF last.mods[i].kind \in {"Insert", "Overwrite"}
            THEN /\ Version(last.mods[i].key, last.ptr.number, INF, last.mods[i].data)
                        \in db.versions
                 /\ get(db, last.mods[i].key, last.ptr.number) = {last.mods[i].data}
            ELSE /\ last.mods[i].key \notin live(db.versions)
                 /\ get(db, last.mods[i].key, last.ptr.number) = {}

\* C3: at every block at most one version of a key is valid, and get returns
\* the data of exactly that version, or nothing when there is none
C3_TemporalIntegrity ==
    \A k \in AllKeys, b \in Blocks :
        /\ Cardinality(find(db.versions, k, b)) <= 1
        /\ get(db, k, b) = {v.data : v \in find(db.versions, k, b)}
        /\ Cardinality(get(db, k, b)) <= 1

\* a revert has been carried out on a deployment that holds entity versions
C3_Witness ==
    /\ last.op \in Reverts /\ last.res = "ok"
    /\ \E v \in db.versions : v.end = INF /\ v.start < db.latest_block.number

\* C4: a successful transact at block N followed by a successful revert to
\* block N-1 restores the live entities and the persisted entity count
C4_RewindInverse ==
    (last.op \in Reverts /\ last.res = "ok" /\ last.undo.valid) =>
        (live(db.versions) = last.undo.live /\ db.entity_count = last.undo.count)

\* the batch holds an Insert or Overwrite of a key while a current entity of a
\* type that shares an interface holds the same id
HasConflict(versions, mods) ==
    \E i \in 1 .. Len(mods) :
        /\ mods[i].kind \in {"Insert", "Overwrite"}
        /\ check_interface_entity_uniqueness(versions, mods[i].key) = "ConflictingId"

\* C5: a transact_block_operations call whose batch conflicts with a current
\* entity of a sibling type fails with ConflictingId and changes nothing
C5_ConflictingIdAborts ==
    [][(last'.op = Transact /\ HasConflict(db.versions, last'.mods))
            => (last'.res = "ConflictingId" /\ db' = db)]_vars

C8_RewindStrictlyBackward ==
    [][(last'.op = "rewind" /\ db.latest_block # NoPtr) =>
            IF last'.ptr.number >= db.latest_block.number
            THEN last'.res = "ConstraintViolation" /\ db' = db
            ELSE last'.res = "ok" => db'.firehose_cursor = "None"]_vars

\* C9: revert_block_operations to a block that is not below the head panics
\* with nothing modified; to a block below the head it does not panic and,
\* when it succeeds, stores the caller's cursor
C9_RevertForwardPanics ==
    [][(last'.op = "revert_block_operations" /\ db.latest_block # NoPtr) =>
            IF last'.ptr.number >= db.latest_block.number
            THEN last'.res = "panic" /\ db' = db
            ELSE /\ last'.res # "panic"
                 /\ last'.res = "ok" => db'.firehose_cursor = last'.cursor]_vars

\* a revert to the head's own block has panicked
C9_Witness ==
    /\ last.op = "revert_block_operations" /\ last.res = "panic"
    /\ db.latest_block # NoPtr /\ last.ptr.number = db.latest_block.number

\* C10: a rewind or revert to a block before the graft block is turned down
\* with an error and changes nothing; the graft block itself is not turned
\* down as a revert past the graft point
C10_GraftImmutable ==
    [][(last'.op \in Reverts /\ graft_block # NoGraft /\ last'.res # "panic") =>
            /\ last'.ptr.number < graft_block => (last'.res \in Errors /\ db' = db)
            /\ last'.ptr.number = graft_block => last'.res # "RevertPastGraft"]_vars

\* a revert to a block before the graft block has been turned down
C10_Witness ==
    /\ last.op \in Reverts /\ last.res = "RevertPastGraft"
    /\ last.ptr.number < graft_block /\ db.latest_block.number > graft_block

\* the prune stops that end the call before it has read the deployment state
EarlyStops == {"layout", "cancel_after_layout", "state"}

\* the check_cancel checkpoints of prune
CancelStops == {"cancel_after_layout", "cancel_before_floor", "cancel_after_floor",
                "cancel_in_copy"}

\* C11: over every sequence of prune calls, successful, failing or
\* cancelled, and the indexing and reverts between them, the persisted
\* earliest_block_number never decreases
C11_PruneMonotonic ==
    [][db'.earliest_block_number >= db.earliest_block_number]_vars

\* a prune has raised the floor above the graft point of a grafted deployment
C11_Witness ==
    /\ last.op = "prune" /\ last.res = "ok" /\ last.stop = "none"
    /\ db.earliest_block_number = last.earliest_block
    /\ graft_block # NoGraft /\ db.earliest_block_number > graft_block

\* C12 as claimed: a prune call with earliest_block below the persisted
\* floor that is neither cancelled nor hit by a store error fails with a
\* constraint violation and changes nothing, whatever latest_block and
\* reorg_threshold are
C12_BelowFloorAlwaysFails ==
    [][(last'.op = "prune" /\ last'.stop = "none"
            /\ last'.earliest_block < db.earliest_block_number)
        => (last'.res = "ConstraintViolation" /\ db' = db)]_vars

\* C12 as amended: a prune call with earliest_block below the persisted
\* floor never changes the deployment; it fails with a constraint violation
\* when latest_block.number > reorg_threshold and is a successful no-op when
\* latest_block.number <= reorg_threshold, unless a store error or a
\* cancellation ends it before
C12_BelowFloorNeverMoves ==
    [][(last'.op = "prune" /\ last'.earliest_block < db.earliest_block_number)
        => /\ db' = db
           /\ last'.res \in {"ConstraintViolation", "ok", "StoreError", "Canceled"}
           /\ last'.stop \notin EarlyStops =>
                last'.res = IF db.latest_block.number > last'.reorg_threshold
                            THEN "ConstraintViolation" ELSE "ok"]_vars

\* a prune below the floor has been refused with a constraint violation
C12_Witness ==
    /\ last.op = "prune" /\ last.res = "ConstraintViolation"
    /\ last.earliest_block < db.earliest_block_number
    /\ db.latest_block.number > last.reorg_threshold

\* C13: with latest_block.number <= reorg_threshold prune changes nothing and
\* succeeds; otherwise a call with latest_block.number - reorg_threshold <=
\* earliest_block is refused with a constraint violation and changes
\* nothing, so that a floor that prune persists is strictly below
\* latest_block.number - reorg_threshold
C13_ReorgMargin ==
    [][(last'.op = "prune" /\ db.latest_block # NoPtr) =>
        IF db.latest_block.number <= last'.reorg_threshold
        THEN db' = db /\ (last'.stop \notin EarlyStops => last'.res = "ok")
        ELSE /\ db.latest_block.number - last'.reorg_threshold <= last'.earliest_block
                    => /\ db' = db
                       /\ last'.res # "ok"
                       /\ last'.stop \notin EarlyStops => last'.res = "ConstraintViolation"
             /\ db'.earliest_block_number # db.earliest_block_number
                    => db'.earliest_block_number
                            < db.latest_block.number - last'.reorg_threshold]_vars

\* a prune of a deployment whose head is not past the reorg threshold has
\* returned without pruning an entity version that lies below earliest_block
C13_Witness ==
    /\ last.op = "prune" /\ last.res = "ok" /\ last.stop = "none"
    /\ db.latest_block # NoPtr /\ db.latest_block.number <= last.reorg_threshold
    /\ db.earliest_block_number < last.earliest_block
    /\ \E v \in db.versions : v.end <= last.earliest_block

GraftedDeployment ==
    start_subgraph(EmptyDeployment, graft_base, graft_base.src.versions, "none").db

C17_HeadSignalsGraft ==
    [][(last'.op = "start_subgraph" /\ last'.graft) =>
        /\ db'.latest_block # NoPtr =>
            /\ db'.latest_block = graft_base.block
            /\ db'.versions = revert_versions(graft_base.src.versions, graft_block + 1)
            /\ db'.data_sources = {r \in graft_base.src.data_sources : r.block <= graft_block}
            /\ db'.errors = {r \in graft_base.src.errors : r.block <= graft_block}
            /\ db'.entity_count = count_query(db'.versions)
        /\ db'.latest_block = NoPtr =>
            /\ last'.res # "ok"
            /\ db' = [db EXCEPT !.versions = db'.versions]
            /\ db.versions \subseteq db'.versions
            /\ db'.versions \subseteq graft_base.src.versions
        /\ last'.res = "Canceled" => db'.latest_block = NoPtr]_vars

\* a cancelled copy has left part of the source's rows and no head
C17_Witness ==
    /\ last.op = "start_subgraph" /\ last.graft /\ last.res = "Canceled"
    /\ db.versions # {} /\ db.latest_block = NoPtr

\* C18: get_proof_of_indexing returns None exactly when the layout does
\* not support proof of indexing, the deployment has no head, or the head's
\* number is below the block's number, whatever the block's hash; otherwise
\* it returns the digest over the digest-carrier entities valid at the
\* block's number
C18_PoiNoneOrDigest ==
    (last.op = "get_proof_of_indexing" /\ last.res = "ok") =>
        /\ last.value = <<>> <=>
                \/ ~last.supports
                \/ db.latest_block = NoPtr
                \/ db.latest_block.number < last.block.number
        /\ last.value # <<>> =>
                /\ last.value[1].regions =
                        {<<v.key.entity_id, v.data>> :
                            v \in {w \in db.versions :
                                    /\ w.key \in PoiKeys
                                    /\ w.start <= last.block.number
                                    /\ last.block.number < w.end}}
                /\ last.value[1].block = last.block
                /\ last.value[1].indexer = last.indexer

\* a digest was returned for a block at the head's number with another hash
C18_Witness ==
    /\ last.op = "get_proof_of_indexing" /\ last.res = "ok" /\ last.value # <<>>
    /\ last.block.number = db.latest_block.number /\ last.block.hash # db.latest_block.hash
    /\ last.value[1].regions # {}

WeightOf(i) == IF i + 1 <= Len(selected.pool_weights) THEN selected.pool_weights[i + 1] ELSE 1
ReplicaOf(i) == IF i = 0 THEN Main ELSE ReadOnly(i - 1)
WeightSum == Len(replica_list([i \in 1 .. router.read_only_pools + 1 |-> WeightOf(i - 1)], 1))

\* the latest WeightSum selections are there
WindowFull == WeightSum > 0 /\ Len(selected.window) = WeightSum

\* each replica occurs in the window as many times as its weight
WindowFair ==
    \A i \in 0 .. router.read_only_pools :
        Cardinality({k \in 1 .. Len(selected.window) : selected.window[k].replica = ReplicaOf(i)})
            = WeightOf(i)

\* the counter did not wrap around within the window
WindowUnwrapped ==
    \A k \in 1 .. Len(selected.window) - 1 :
        selected.window[k].value < selected.window[k + 1].value

\* C20 as claimed: in every window of L consecutive non-subscription
\* selections, in counter order, each replica is selected as many times as
\* its weight
C20_EveryWindowFair == WindowFull => WindowFair

\* C20 as amended: the same, for every window within which the round-robin
\* counter does not wrap around
C20_UnwrappedWindowFair == (WindowFull /\ WindowUnwrapped) => WindowFair

\* a full window of a store with two replicas of different weight, taken
\* while both callers are inside replica_for_query
C20_Witness ==
    /\ WindowFull /\ WindowUnwrapped /\ router.read_only_pools = 1
    /\ WeightOf(0) = 1 /\ WeightOf(1) = MaxWeight
    /\ selected.window[1].value > 0
    /\ \A c \in Callers : calls[c] # Idle /\ ~calls[c].for_subscription

\* C21: a selection for a subscription returns Main and succeeds, whatever
\* the weights (a weight of 0 for the main pool included) and however many
\* selections were made before
C21_SubscriptionsOnMain ==
    \A c \in Callers :
        (calls[c] # Idle /\ calls[c].for_subscription)
            => (calls[c].res = "ok" /\ calls[c].replica = Main)

\* a subscription selection on a store whose main pool has weight 0, after
\* earlier weighted selections
C21_Witness ==
    /\ router.read_only_pools = 1 /\ WeightOf(0) = 0 /\ WeightOf(1) > 0
    /\ Main \notin {router.replica_order[i] : i \in 1 .. Len(router.replica_order)}
    /\ router.conn_round_robin_counter > 1
    /\ \E c \in Callers : calls[c] # Idle /\ calls[c].for_subscription

\* C22: no replica_for_query call fails or panics, for any store that
\* DeploymentStore::new constructs
C22_SelectionNeverFails == \A c \in Callers : calls[c].res \in {"idle", "ok"}

\* the revert to `parent_ptr` is one revert_block_operations carries out:
\* the deployment has a head above it and was not grafted after it
Revertible(parent_ptr) ==
    /\ db.latest_block # NoPtr
    /\ parent_ptr.number < db.latest_block.number
    /\ (graft_block = NoGraft \/ graft_block <= parent_ptr.number)

\* the recorded fatal error is deterministic and was recorded with `hash`
DeterministicAt(hash) ==
    /\ status.fatal_error.some
    /\ status.fatal_error.deterministic
    /\ status.fatal_error.block_hash = hash

\* C23: when the recorded fatal error is deterministic and carries the hash
\* of current_ptr, unfail_deterministic_error (with a parent below the head
\* and not before the graft block, and a working storage engine) returns
\* Unfailed, leaves the head at parent_ptr with nothing of a later block
\* stored and no fatal error recorded, and sets the health to Unhealthy when
\* the parent block has deterministic errors and to Healthy otherwise
C23_UnfailDeterministic ==
    \A current_ptr \in UnfailPtrs, parent_ptr \in BlockPtrs :
        LET r == unfail_deterministic_error(db, status, graft_block, current_ptr, parent_ptr,
                                            "none")
        IN  (DeterministicAt(current_ptr.hash) /\ Revertible(parent_ptr)) =>
                /\ r.res = "Unfailed"
                /\ r.db.latest_block = parent_ptr
                /\ r.db.firehose_cursor = "None"
                /\ \A v \in r.db.versions : v.start <= parent_ptr.number
                /\ \A e \in r.db.errors : e.block <= parent_ptr.number
                /\ r.status.fatal_error = NoError
                /\ r.status.health =
                        IF \E e \in db.errors : e.block <= parent_ptr.number
                        THEN "Unhealthy" ELSE "Healthy"

\* a deployment unfailed to Unhealthy: an error of an earlier block is still
\* recorded after the revert
C23_Witness ==
    /\ last.op = "unfail_deterministic_error" /\ last.res = "Unfailed"
    /\ status.health = "Unhealthy" /\ status.fatal_error = NoError
    /\ db.errors # {} /\ db.latest_block # NoPtr /\ db.latest_block.number > 0

\* C24: unfail_deterministic_error returns Noop and changes nothing when no
\* fatal error is recorded, when the recorded one is not deterministic, when
\* its block hash differs from the hash of current_ptr and when it has no
\* block hash
C24_UnfailDeterministicNoop ==
    \A current_ptr \in UnfailPtrs, parent_ptr \in BlockPtrs, fail \in UnfailFailPoints :
        LET r == unfail_deterministic_error(db, status, graft_block, current_ptr, parent_ptr,
                                            fail)
        IN  ~DeterministicAt(current_ptr.hash) =>
                /\ r.db = db /\ r.status = status
                /\ r.res \in {"Noop", "StoreError"}
                /\ fail = "none" => r.res = "Noop"

\* a Noop for a deterministic fatal error that has no block hash, on a
\* deployment that could be reverted
C24_Witness ==
    /\ last.op = "unfail_deterministic_error" /\ last.res = "Noop"
    /\ status.fatal_error.some /\ status.fatal_error.deterministic
    /\ status.fatal_error.block_hash = NoHash
    /\ db.latest_block # NoPtr /\ db.latest_block.number > 0

\* the recorded fatal error is non-deterministic and the head has reached its block
NonDeterministicUpTo(number) ==
    /\ status.fatal_error.some
    /\ ~status.fatal_error.deterministic
    /\ number >= status.fatal_error.block

\* C25: unfail_non_deterministic_error returns Noop and changes nothing when
\* no fatal error is recorded, when it is deterministic and when current_ptr
\* is below the error's start block; otherwise it sets the health to
\* Healthy, clears and deletes the fatal error and returns Unfailed, and a
\* call repeated at once returns Noop
C25_UnfailNonDeterministic ==
    \A current_ptr \in UnfailPtrs :
        LET r == unfail_non_deterministic_error(db, status, current_ptr, "none")
        IN  IF NonDeterministicUpTo(current_ptr.number)
            THEN /\ r.res = "Unfailed"
                 /\ r.status = [health |-> "Healthy", fatal_error |-> NoError]
                 /\ \A e \in r.db.errors : e.id # status.fatal_error.id
                 /\ r.db.latest_block = db.latest_block /\ r.db.versions = db.versions
                 /\ unfail_non_deterministic_error(r.db, r.status, current_ptr, "none").res = "Noop"
            ELSE r.res = "Noop" /\ r.db = db /\ r.status = status

\* a deployment unfailed after a non-deterministic error, with the head past
\* the start block
C25_Witness ==
    /\ last.op = "unfail_non_deterministic_error" /\ last.res = "Unfailed"
    /\ status = HealthyStatus
    /\ db.latest_block # NoPtr /\ db.latest_block.number > 0 /\ db.versions # {}

\* C26: an unfail_deterministic_error that returns an error leaves the
\* deployment as it was before the call, the revert to parent_ptr included
C26_UnfailDeterministicAtomic ==
    \A current_ptr \in UnfailPtrs, parent_ptr \in BlockPtrs, fail \in UnfailFailPoints :
        LET r == unfail_deterministic_error(db, status, graft_block, current_ptr, parent_ptr,
                                            fail)
        IN  r.res \notin {"Unfailed", "Noop"} => (r.db = db /\ r.status = status)

\* C27 as claimed: of the threads that ask for the SubgraphInfo of one
\* deployment, at most one has carried out the derivation and is about to
\* insert its result
C27_DerivedOnce ==
    \A t1, t2 \in Threads :
        (t1 # t2 /\ threads[t1].pc = "insert" /\ threads[t2].pc = "insert")
            => threads[t1].site # threads[t2].site

\* C27 as amended: each lookup and each insertion is exclusive, so the
\* cache holds one entry per deployment; threads that missed the same
\* deployment may each derive its SubgraphInfo, they derive equal values,
\* and each of them returns the value that is in the cache
C27_ExclusiveLookupAndInsert ==
    /\ \A i, j \in 1 .. Len(caches.subgraph_cache) :
            caches.subgraph_cache[i].key = caches.subgraph_cache[j].key => i = j
    /\ \A t1, t2 \in Threads :
            (threads[t1].pc = "insert" /\ threads[t2].pc = "insert"
                /\ threads[t1].site = threads[t2].site)
                => threads[t1].info = threads[t2].info
    /\ \A t \in Threads :
            (threads[t].pc = "return" /\ threads[t].op = "subgraph_info"
                /\ threads[t].res = "ok")
                => \A i \in 1 .. Len(caches.subgraph_cache) :
                        caches.subgraph_cache[i].key = threads[t].site
                            => caches.subgraph_cache[i].value = threads[t].info

\* both threads missed the same deployment and derived its SubgraphInfo:
\* one has inserted it and returns it, the other is about to insert it again
C27_Witness ==
    \E t1, t2 \in Threads :
        /\ threads[t1].pc = "return" /\ threads[t1].served = "storage"
        /\ threads[t1].res = "ok"
        /\ threads[t2].pc = "insert" /\ threads[t2].site = threads[t1].site
        /\ \E i \in 1 .. Len(caches.subgraph_cache) :
                caches.subgraph_cache[i].key = threads[t1].site

\* the keys of the metadata cache
CachedKeys(cache) == {cache[i].key : i \in 1 .. Len(cache)}

\* C28: the metadata cache never holds more entries than its capacity, a
\* step drops no entry but the least recently used one, and every
\* subgraph_info call returns the SubgraphInfo a fresh computation from
\* storage returns, whether it was served from the cache or derived
C28_CacheBoundedTransparent ==
    [][/\ Len(caches'.subgraph_cache) <= SubgraphCacheCapacity
       /\ \A i \in 1 .. Len(caches'.subgraph_cache) :
            caches'.subgraph_cache[i].value = derive_info(caches'.subgraph_cache[i].key)
       /\ CachedKeys(caches.subgraph_cache) \ CachedKeys(caches'.subgraph_cache)
            \subseteq {caches.subgraph_cache[i].key : i \in {1} \cap DOMAIN caches.subgraph_cache}
       /\ \A t \in Threads :
            (threads'[t].pc = "return" /\ threads'[t].op = "subgraph_info"
                /\ threads'[t].res = "ok")
                => threads'[t].info = derive_info(threads'[t].site)]_vars

\* the cache is full, one thread returns an entry it had to derive and
\* insert, the other one an entry of another deployment served from the cache
C28_Witness ==
    /\ Len(caches.subgraph_cache) = SubgraphCacheCapacity
    /\ \E t1, t2 \in Threads :
        /\ threads[t1].pc = "return" /\ threads[t1].res = "ok" /\ threads[t1].served = "storage"
        /\ threads[t2].pc = "return" /\ threads[t2].res = "ok" /\ threads[t2].served = "cache"
        /\ threads[t1].site # threads[t2].site
        /\ threads[t1].site \in CachedKeys(caches.subgraph_cache)
        /\ threads[t2].site \notin CachedKeys(caches.subgraph_cache)

C30_MirrorFailureHarmless ==
    [][(last'.op = "transact_block_operations" /\ db'.latest_block # db.latest_block)
            => (last'.res = "ok" /\ last'.event # <<>>)]_vars

\* C39: every ReadOnly(i) in replica_order, and so every one that
\* replica_for_query returns, has i below the number of read-only pools
C39_ReadOnlyIndexInRange ==
    /\ \A k \in 1 .. Len(router.replica_order) :
        router.replica_order[k].kind = "ReadOnly"
            => router.replica_order[k].index < router.read_only_pools
    /\ \A c \in Callers :
        (calls[c].res = "ok" /\ calls[c].replica.kind = "ReadOnly")
            => calls[c].replica.index < router.read_only_pools

\* a read-only replica returned by a store that was given more weights
\* than it has pools, the surplus weight being positive
C39_Witness ==
    /\ Len(selected.pool_weights) > router.read_only_pools + 1
    /\ selected.pool_weights[Len(selected.pool_weights)] > 0
    /\ \E c \in Callers : calls[c].res = "ok" /\ calls[c].replica = ReadOnly(0)

\* the positions of the requests of one kind on the current mirror session
RequestsOf(req) == {i \in 1 .. Len(nebula.requests) : nebula.requests[i].req = req}

\* C31: when the relational transaction of create_deployment fails, the
\* call returns that error and nothing is created in the mirror store
C31_TransactionErrorReturned ==
    (last.op = "create_deployment" /\ "transaction" \in DOMAIN last
        /\ last.res # "panic" /\ last.transaction \notin {"ok", "-"})
        => (last.res = last.transaction /\ RequestsOf("execute") = {})

\* C40: every statement sent to the mirror store follows the authentication
\* of the session and precedes its signout, and a call that returns has
\* signed the session out exactly once
C40_SessionProtocol ==
    /\ \A i \in RequestsOf("execute") :
        /\ \E j \in RequestsOf("authenticate") : j < i
        /\ \A k \in RequestsOf("signout") : i < k
    /\ (last.op = "create_deployment" /\ last.res = "ok" /\ "transaction" \in DOMAIN last)
        => Cardinality(RequestsOf("signout")) = 1

\* C32: a writer that has made a mutation in its transaction holds the
\* deployment lock, no two writers hold it together, and so no writer has
\* uncommitted mutations while another one mutates
C32_WritesUnderLock ==
    /\ \A w \in Writers :
        ("writes" \in DOMAIN writers[w] /\ writers[w].writes > 0) => Locked(writers[w])
    /\ \A w, o \in Writers : (Locked(writers[w]) /\ Locked(writers[o])) => w = o

\* one writer has mutated its working copy while the other waits for the lock
C32_Witness ==
    \E w, o \in Writers :
        /\ "writes" \in DOMAIN writers[w] /\ writers[w].writes > 0 /\ Locked(writers[w])
        /\ writers[w].op = "transact_block_operations"
        /\ writers[o].pc = "lock" /\ writers[o].op = "rewind"

\* C33: a writer has sent requests to the mirror store only after its
\* primary transaction committed; a batch whose transaction failed has none
C33_MirrorAfterCommit ==
    \A w \in Writers :
        ("session" \in DOMAIN writers[w] /\ writers[w].session # <<>>)
            => writers[w].committed

\* one batch is in the mirror store after its commit, another was aborted
\* and sent nothing
C33_Witness ==
    \E w, o \in Writers :
        /\ writers[w].pc = "returned" /\ writers[w].op = "transact_block_operations"
        /\ writers[w].res = "ok" /\ Len(writers[w].session) = 4
        /\ writers[o].pc = "returned" /\ writers[o].op = "transact_block_operations"
        /\ writers[o].res = "DuplicateBlockProcessing" /\ writers[o].session = <<>>

\* C35: a rewind or revert that commits has a target below the head that
\* was current when its transaction took the deployment lock
C35_BackwardAtCommit ==
    \A w \in Writers :
        (writers[w].pc = "returned" /\ writers[w].res = "ok"
            /\ writers[w].op \in Reverts)
            => writers[w].ptr.number < writers[w].head

\* C34: the persisted entity count equals the number of entity keys that
\* have an open version
C34_EntityCountConsistent == db.entity_count = Cardinality(live(db.versions))

\* C37: the head of the deployment is never below its retention floor
C37_HeadAtOrAboveFloor ==
    db.latest_block # NoPtr => db.latest_block.number >= db.earliest_block_number

\* C36: with concurrent prune calls the persisted floor never decreases:
\* it is at least the floor of every prune call that has persisted its
\* own, so the final floor is the larger of the accepted values
C36_FloorKeepsAcceptedValues ==
    \A w \in Writers :
        ("written" \in DOMAIN writers[w] /\ writers[w].written)
            => db.earliest_block_number >= writers[w].earliest_block

\* the calls that hold a connection and wait for a second one
WaitingForSecond == {w \in Writers : writers[w].pc = "revert_block_operations"}

\* C38: no state is reachable in which every connection of the main pool
\* is held by an unfail_deterministic_error call that waits for a second
\* connection of the same pool
C38_NoMutualWait == ~(Cardinality(WaitingForSecond) = PoolSize /\ Free(writers) = 0)

====
